---- MODULE Spec2Model ----
(***************************************************************************)
(* A model of the AleaMaris entropy service: the bounded byte queue        *)
(* (trng/queue.py), the ChaCha20 DRBG (trng/chacha_drbg.py), the buffered  *)
(* RNG (trng/alea.py) and the way api/app.py runs them.                    *)
(*                                                                         *)
(* A byte is a pair <<src, idx>>:                                          *)
(*   <<0, v>>   a literal byte of value v (0..255)                         *)
(*   <<-1, k>>  the k-th byte handed to the program from outside (a block  *)
(*              offered to the queue, a request body, a seed)              *)
(*   <<t, i>>   for t > 0: byte i of the digest of the t-th distinct       *)
(*              HMAC-SHA256 input (see hmacs)                              *)
(*   <<-2-b, i>> byte i of the ChaCha20 block of the (b+1)-th distinct     *)
(*              block input (see blocks), b >= 0                           *)
(* A byte string is a sequence of bytes.                                   *)
(***************************************************************************)
EXTENDS Integers, Sequences, FiniteSets, TLC

VARIABLES
    \* TrngQueue (trng/queue.py)
    chunks,     \* self.chunks: the deque of stored blocks
    size,       \* self.size
    cap,        \* self.cap
    \* history of the queue's calls
    serial,     \* how many outside bytes have been handed to offer so far
    offered,    \* concatenation of the bytes offers accepted, in call order
    polled,     \* concatenation of the bytes polls returned, in call order
    last,       \* the last call: its kind, argument, result and pre-state
    \* queue calls in progress on the threads of the service (api/app.py)
    pc,         \* per thread: the line of queue.py it is about to run
    loc,        \* per thread: the locals of its call of offer or poll
    raised,     \* how many calls ended by raising IndexError
    \* the two hash functions, as the tables of the inputs met so far
    hmacs,      \* the distinct <<key, message>> inputs of HMAC-SHA256
    blocks,     \* the distinct 64-byte inputs of the ChaCha20 block function
    \* ChaCha20DRBG (trng/chacha_drbg.py)
    drbg,       \* [backend, key, nonce, counter] of self._impl
    \* history of the DRBG's calls
    acc,        \* concatenation of the outputs of generate since the last
                \* (re)seeding that changed the key
    sizes,      \* the sizes n of those calls of generate
    ctrlog,     \* the block counters those calls handed to the cipher
    lastgen,    \* the last call of generate: n, counter before, output
    rlog,       \* the calls of reseed: entropy, state before and after
    drawn,      \* how many bytes generate was asked for in this run
    gens,       \* how many calls of generate were made in this run
    \* AleaMaris (trng/alea.py); its self.drbg is drbg
    generated,  \* self.generated
    buf,        \* self._buf
    buf_pos,    \* self._buf_pos
    \* history of the RNG's calls
    lastrb,     \* the last call of random_bytes or reseed: its argument,
                \* its output, the RNG before it, what the provider gave
    rbcalls,    \* how many calls of random_bytes were made in this run
    areseeds,   \* how many calls of AleaMaris.reseed were made in this run
    \* RNG calls in progress on the threads of the service (api/app.py)
    apc,        \* per thread: the line of alea.py or chacha_drbg.py it is at
    aloc,       \* per thread: the locals of its call
    handed,     \* the bytes random_bytes returned, each with its call
    \* history of the constructions of ChaCha20DRBG and AleaMaris
    ctorlog,    \* per construction: what was built, the seed's length,
                \* whether it raised, the object before and after
    \* the integer samplers of AleaMaris (randrange, randint)
    scall,      \* the call in progress or the last one: arguments, where
                \* it is, the last u32 drawn, the result, the RNG before
    sdraws,     \* how many u32 were drawn in this run
    \* TRNGGenerator (trng/generator.py) and its source (trng/sources.py)
    gsrc,       \* the source: its kind, its frames, whether it was released
    gen,        \* the generator: pass_counter, global_counter, the frames
                \* since the key was rotated, the rotations, the calls
    gcall,      \* the call of produce in progress or the last one
    \* the service (api/app.py)
    env,        \* what the process was started with: the source that can
                \* be used, ALLOW_URANDOM_BOOT
    hcfg,       \* GEN_CFG.bytes_total
    hpc,        \* per thread: the line of app.py or generator.py it is at
    hloc,       \* per thread: the locals of its call
    svc         \* how far the process is, its tasks, what its last filler
                \* pass saw and did, what the last request answered when
                \* it was a health request

qvars == <<chunks, size, cap, serial, offered, polled, last>>

tvars == <<pc, loc, raised>>

dvars == <<hmacs, blocks, drbg, acc, sizes, ctrlog, lastgen, rlog, drawn,
          gens>>

avars == <<generated, buf, buf_pos, lastrb, rbcalls, areseeds>>

uvars == <<apc, aloc, handed>>

bvars == <<ctorlog>>

\* the variables of the parts modelled further down
svars == <<scall, sdraws>>

gvars == <<gsrc, gen, gcall>>

hvars == <<env, hcfg, hpc, hloc, svc>>

xvars == <<bvars, svars, gvars, hvars>>

vars == <<qvars, tvars, dvars, avars, uvars, xvars>>

\* what the calls of the queue by one caller leave alone
OtherThanQ == <<tvars, dvars, avars, uvars, xvars>>

\* what the calls of the queue from several threads leave alone
OtherThanT == <<dvars, avars, uvars, xvars>>

\* what the calls of the RNG leave alone
OtherThanA == <<qvars, tvars, acc, sizes, ctrlog, lastgen, rlog, drawn, gens,
               uvars, xvars>>

\* what the calls of the RNG from several threads leave alone
OtherThanU == <<qvars, tvars, acc, sizes, ctrlog, lastgen, rlog, drawn, gens,
               lastrb, xvars>>

\* what the calls of the DRBG leave alone
OtherThanD == <<qvars, tvars, avars, uvars, xvars>>

----------------------------------------------------------------------------
\* Bounds of the model

\* largest queue ceiling (cap_bytes) tried
MaxCap == 3
\* longest block handed to one offer
MaxBlock == 3
\* largest count handed to one poll
MaxPoll == 3
\* how many outside bytes are handed to the queue in one run
MaxSerial == 5
\* the same three for the runs with calls in progress on several threads
TMaxBlock == 2
TMaxPoll == 2
TMaxSerial == 3
\* how many bytes generate is asked for in one run
MaxDrawn == 130
\* how many calls of reseed in one run
MaxReseeds == 2
\* how many calls of generate in one run
MaxGens == 2
\* stands for _buf_chunk (4096 * 1024 in alea.py): the least number of
\* bytes a refill of the RNG buffer asks of the DRBG
BufChunk == 4
\* stands for reseed_interval_bytes (ALEAMARIS_RESEED_INTERVAL_BYTES)
ReseedInterval == 6
\* how many calls of random_bytes in one run
MaxRbCalls == 3
\* how many calls of AleaMaris.reseed in one run
MaxAReseeds == 1
\* how many calls of random_bytes in one run with calls in progress on
\* several threads, and the largest n asked
TMaxRbCalls == 2
TMaxRb == 2

----------------------------------------------------------------------------
\* Threads

\* the threads of the service: the event loop, which runs the filler
\* task, the reseed task and the async handlers one at a time, and the
\* worker threads on which the framework runs the handlers declared with a
\* plain def (get_bytes, rng_bytes, ...)
Procs == {"loop", "w1"}

\* the threads that call the RNG: the event loop and two worker threads
RngProcs == {"loop", "w1", "w2"}

----------------------------------------------------------------------------
\* Helpers

Min(a, b) == IF a < b THEN a ELSE b

Max(a, b) == IF a > b THEN a ELSE b

\* data[:n] of Python for 0 <= n
Take(s, n) == SubSeq(s, 1, Min(n, Len(s)))

\* data[n:] of Python for 0 <= n
Drop(s, n) == SubSeq(s, n + 1, Len(s))

RECURSIVE Flatten(_)
\* the concatenation of a sequence of byte strings
Flatten(ss) == IF ss = <<>> THEN <<>> ELSE Head(ss) \o Flatten(Tail(ss))

RECURSIVE SumLen(_)
\* the sum of the lengths of a sequence of byte strings
SumLen(ss) == IF ss = <<>> THEN 0 ELSE Len(Head(ss)) + SumLen(Tail(ss))

IsPrefix(s, t) == Len(s) <= Len(t) /\ SubSeq(t, 1, Len(s)) = s

\* the n outside bytes following the first k
Outside(k, n) == [i \in 1..n |-> <<-1, k + i>>]

----------------------------------------------------------------------------
\* TrngQueue. A queue value q is [chunks, size, cap].

\* offer with the size update of line 26 lost: a mutant
offer_nosize(q, data) ==
    LET room == q.cap - q.size
        to_write == Min(Len(data), room)
    IN  IF room <= 0 \/ to_write <= 0
        THEN [chunks |-> q.chunks, size |-> q.size, ret |-> 0]
        ELSE [chunks |-> Append(q.chunks, Take(data, to_write)),
              size |-> q.size + (IF to_write = Len(data) THEN to_write ELSE 0),
              ret |-> to_write]

\* offer storing the block at the head of the deque: a mutant
offer_front(q, data) ==
    LET room == q.cap - q.size
        to_write == Min(Len(data), room)
    IN  IF room <= 0 \/ to_write <= 0
        THEN [chunks |-> q.chunks, size |-> q.size, ret |-> 0]
        ELSE [chunks |-> <<Take(data, to_write)>> \o q.chunks,
              size |-> q.size + to_write,
              ret |-> to_write]

\* offer storing the whole block when it does not fit: a mutant
offer_notrunc(q, data) ==
    LET room == q.cap - q.size
        to_write == Min(Len(data), room)
    IN  IF room <= 0 \/ to_write <= 0
        THEN [chunks |-> q.chunks, size |-> q.size, ret |-> 0]
        ELSE [chunks |-> Append(q.chunks, data),
              size |-> q.size + Len(data),
              ret |-> to_write]

\* TrngQueue.offer(data): the queue after the call and the value returned
offer(q, data) ==
    LET room == q.cap - q.size
        to_write == Min(Len(data), room)
    IN  IF room <= 0
        THEN [chunks |-> q.chunks, size |-> q.size, ret |-> 0]
        ELSE IF to_write <= 0
        THEN [chunks |-> q.chunks, size |-> q.size, ret |-> 0]
        ELSE IF to_write = Len(data)
        THEN [chunks |-> Append(q.chunks, data),
              size |-> q.size + to_write,
              ret |-> to_write]
        ELSE [chunks |-> Append(q.chunks, Take(data, to_write)),
              size |-> q.size + to_write,
              ret |-> to_write]

RECURSIVE poll_loop(_, _, _, _)
\* the while loop of TrngQueue.poll (lines 35-46)
poll_loop(ch, sz, remaining, out) ==
    IF remaining > 0 /\ ch # <<>>
    THEN LET head == ch[1]
         IN  IF Len(head) <= remaining
             THEN poll_loop(Tail(ch), sz - Len(head), remaining - Len(head),
                            out \o head)
             ELSE poll_loop(<<Drop(head, remaining)>> \o Tail(ch),
                            sz - remaining, 0, out \o Take(head, remaining))
    ELSE [chunks |-> ch, size |-> sz, out |-> out]

RECURSIVE poll_loop_drop(_, _, _, _)
\* the loop dropping the remainder of a split block: a mutant
poll_loop_drop(ch, sz, remaining, out) ==
    IF remaining > 0 /\ ch # <<>>
    THEN LET head == ch[1]
         IN  IF Len(head) <= remaining
             THEN poll_loop_drop(Tail(ch), sz - Len(head),
                                 remaining - Len(head), out \o head)
             ELSE poll_loop_drop(Tail(ch), sz - remaining, 0,
                                 out \o Take(head, remaining))
    ELSE [chunks |-> ch, size |-> sz, out |-> out]

\* poll dropping the remainder of a split block: a mutant
poll_drop(q, count) ==
    IF q.size = 0 \/ count <= 0
    THEN [chunks |-> q.chunks, size |-> q.size, out |-> <<>>]
    ELSE poll_loop_drop(q.chunks, q.size, Min(count, q.size), <<>>)

\* TrngQueue.poll(count): the queue after the call and the bytes returned
poll(q, count) ==
    IF q.size = 0 \/ count <= 0
    THEN [chunks |-> q.chunks, size |-> q.size, out |-> <<>>]
    ELSE poll_loop(q.chunks, q.size, Min(count, q.size), <<>>)

\* TrngQueue.available()
available(q) == q.size

\* the queue of the state
Q == [chunks |-> chunks, size |-> size, cap |-> cap]

----------------------------------------------------------------------------
\* HMAC-SHA256 and the ChaCha20 block function. Each is taken as a function
\* whose outputs on distinct inputs share no byte: an input met for the t-th
\* time yields fresh bytes <<t, 0>>, <<t, 1>>, ..., and the same input again
\* yields the same bytes. The tables hmacs and blocks hold the inputs met.

\* the literal byte of value v
Lit(v) == <<0, v>>

\* b"\x00" * n
Zeros(n) == [i \in 1..n |-> Lit(0)]

\* struct.pack("<I", x) for 0 <= x < 2^31
LE32(x) == <<Lit(x % 256), Lit((x \div 256) % 256),
             Lit((x \div 65536) % 256), Lit((x \div 16777216) % 256)>>

\* x >> 32 (two shifts by 16)
Hi32(x) == (x \div 65536) \div 65536

\* x & 0xffffffff
Lo32(x) == x - Hi32(x) * 65536 * 65536

\* struct.pack("<Q", x): the low word, then the high word
LE64(x) == LE32(Lo32(x)) \o LE32(Hi32(x))

\* the index of x in table, 0 when it is not there
IndexOf(table, x) ==
    IF \E i \in 1..Len(table) : table[i] = x
    THEN CHOOSE i \in 1..Len(table) : table[i] = x
    ELSE 0

\* table with x in it
With(table, x) == IF IndexOf(table, x) = 0 THEN Append(table, x) ELSE table

RECURSIVE StripZeros(_)
\* key without its trailing zero bytes: HMAC pads the key with zeros to the
\* hash's block length, so keys that differ in trailing zeros only are one key
StripZeros(k) ==
    IF k # <<>> /\ k[Len(k)] = Lit(0)
    THEN StripZeros(SubSeq(k, 1, Len(k) - 1))
    ELSE k

\* hmac.new(key, data, hashlib.sha256).digest(), for keys of at most 64 bytes
hmac(hm, key, data) ==
    LET in == <<StripZeros(key), data>>
        hm2 == With(hm, in)
        t == IndexOf(hm2, in)
    IN  [hmacs |-> hm2, digest |-> [i \in 1..32 |-> <<t, i - 1>>]]

RECURSIVE hkdf_loop(_, _, _, _, _, _)
\* the while loop of _hkdf_mix (lines 52-54)
hkdf_loop(hm, prk, t, out, counter, out_len) ==
    IF Len(out) < out_len
    THEN LET h == hmac(hm, prk, t \o <<Lit(counter)>>)
         IN  hkdf_loop(h.hmacs, prk, h.digest, out \o h.digest,
                       counter + 1, out_len)
    ELSE [hmacs |-> hm, out |-> Take(out, out_len)]

\* _hkdf_mix(key, data, out_len)
hkdf_mix(hm, key, data, out_len) ==
    LET h == hmac(hm, key, data)
    IN  hkdf_loop(h.hmacs, h.digest, <<>>, <<>>, 1, out_len)

\* b"expand 32-byte k"
ChaChaConst ==
    <<Lit(101), Lit(120), Lit(112), Lit(97), Lit(110), Lit(100), Lit(32),
      Lit(51), Lit(50), Lit(45), Lit(98), Lit(121), Lit(116), Lit(101),
      Lit(32), Lit(107)>>

\* the 20 rounds and the final addition (lines 34-46) applied to the
\* 16 words in: bytes of the block of the input met as the b-th
block_rounds(bl, in) ==
    LET bl2 == With(bl, in)
        b == IndexOf(bl2, in)
    IN  [blocks |-> bl2, out |-> [i \in 1..64 |-> <<0 - 1 - b, i - 1>>]]

\* _chacha20_block(key, counter, nonce): the state list holds 17 words
\* (4 of the constant, 8 of the key, 2 of the counter, 3 of the nonce), of
\* which the rounds and the output use words 0..15
chacha20_block(bl, key, counter, nonce) ==
    LET state == ChaChaConst \o key \o LE32(Lo32(counter))
                     \o LE32(Lo32(Hi32(counter))) \o nonce
    IN  block_rounds(bl, Take(state, 64))

\* the block of IETF ChaCha20 (RFC 7539): 4 words of the constant, 8 of the
\* key, the 32-bit block counter, 3 of the nonce
ietf_block(bl, key, counter, nonce) ==
    block_rounds(bl, ChaChaConst \o key \o LE32(Lo32(counter)) \o nonce)

RECURSIVE ietf_stream(_, _, _, _, _, _, _)
\* crypto_stream_chacha20_ietf_xor_ic(zeros, nonce, ic, key) of libsodium:
\* the first mlen bytes of the blocks ic, ic + 1, ... (the zeros leave the
\* keystream as it is); used lists the counters handed to the cipher
ietf_stream(bl, mlen, nonce, ic, key, out, used) ==
    IF Len(out) < mlen
    THEN LET b == ietf_block(bl, key, ic, nonce)
         IN  ietf_stream(b.blocks, mlen, nonce, ic + 1, key, out \o b.out,
                         Append(used, ic))
    ELSE [blocks |-> bl, out |-> Take(out, mlen), used |-> used]

----------------------------------------------------------------------------
\* ChaCha20DRBG. A DRBG value d is [backend, key, nonce, counter].

\* the block length of ChaCha20 in bytes
BlockBytes == 64
\* CHUNK of _SodiumChaCha20DRBG.generate
SodiumChunk == 1048576
\* the shortest seed accepted
MinSeed == 32
\* the length of key, nonce, and of the two together
KeyBytes == 32
NonceBytes == 12
MaterialBytes == 44

\* the DRBG of the specifications that have none
NoDrbg ==
    /\ hmacs = <<>>
    /\ blocks = <<>>
    /\ drbg = [backend |-> "none", key |-> <<>>, nonce |-> <<>>, counter |-> 0]
    /\ acc = <<>>
    /\ sizes = <<>>
    /\ ctrlog = <<>>
    /\ lastgen = [fresh |-> FALSE, n |-> 0, counter |-> 0, out |-> <<>>]
    /\ rlog = <<>>
    /\ drawn = 0
    /\ gens = 0

\* __init__ taking a seed one byte short: a mutant
drbg_init_short(hm, backend, seed) ==
    IF Len(seed) < MinSeed - 1
    THEN [hmacs |-> hm, err |-> TRUE,
          d |-> [backend |-> "none", key |-> <<>>, nonce |-> <<>>,
                 counter |-> 0]]
    ELSE LET m == hkdf_mix(hm, Zeros(32), seed, MaterialBytes)
         IN  [hmacs |-> m.hmacs, err |-> FALSE,
              d |-> [backend |-> backend,
                     key |-> SubSeq(m.out, 1, KeyBytes),
                     nonce |-> SubSeq(m.out, KeyBytes + 1, MaterialBytes),
                     counter |-> 0]]

\* __init__(seed) of both backends; err when the seed is refused
drbg_init(hm, backend, seed) ==
    IF Len(seed) < MinSeed
    THEN [hmacs |-> hm, err |-> TRUE,
          d |-> [backend |-> "none", key |-> <<>>, nonce |-> <<>>,
                 counter |-> 0]]
    ELSE LET m == hkdf_mix(hm, Zeros(32), seed, MaterialBytes)
         IN  [hmacs |-> m.hmacs, err |-> FALSE,
              d |-> [backend |-> backend,
                     key |-> SubSeq(m.out, 1, KeyBytes),
                     nonce |-> SubSeq(m.out, KeyBytes + 1, MaterialBytes),
                     counter |-> 0]]

RECURSIVE pure_loop(_, _, _, _, _)
\* the for loop of _PureChaCha20DRBG.generate (lines 74-76); the mask
\* & ((1<<64)-1) of line 76 leaves every counter below 2^64 as it is, and
\* the counters of the model stay far below
pure_loop(bl, d, todo, out, used) ==
    IF todo > 0
    THEN LET b == chacha20_block(bl, d.key, d.counter, d.nonce)
         IN  pure_loop(b.blocks, [d EXCEPT !.counter = d.counter + 1],
                       todo - 1, out \o b.out, Append(used, d.counter))
    ELSE [blocks |-> bl, d |-> d, out |-> out, used |-> used]

\* _PureChaCha20DRBG.generate(n)
pure_generate(bl, d, n) ==
    LET r == pure_loop(bl, d, (n + 63) \div 64, <<>>, <<>>)
    IN  [blocks |-> r.blocks, d |-> r.d, out |-> Take(r.out, n),
         used |-> r.used]

RECURSIVE sodium_loop(_, _, _, _, _)
\* the while loop of _SodiumChaCha20DRBG.generate (lines 105-112)
sodium_loop(bl, d, remaining, out, used) ==
    IF remaining > 0
    THEN LET take == IF remaining > SodiumChunk THEN SodiumChunk
                     ELSE remaining
             ct == ietf_stream(bl, take, d.nonce, d.counter, d.key,
                               <<>>, <<>>)
         IN  sodium_loop(ct.blocks,
                         [d EXCEPT !.counter = d.counter + (take + 63) \div 64],
                         remaining - take, out \o ct.out, used \o ct.used)
    ELSE [blocks |-> bl, d |-> d, out |-> out, used |-> used]

\* _SodiumChaCha20DRBG.generate(n)
sodium_generate(bl, d, n) ==
    LET r == sodium_loop(bl, d, n, <<>>, <<>>)
    IN  [blocks |-> r.blocks, d |-> r.d, out |-> Take(r.out, n),
         used |-> r.used]

\* generate leaving the counter where it was: a mutant
generate_stuck(bl, d, n) ==
    LET r == IF d.backend = "sodium" THEN sodium_generate(bl, d, n)
             ELSE pure_generate(bl, d, n)
    IN  [r EXCEPT !.d = d]

\* generate moving the counter on by the whole blocks only: a mutant
generate_floor(bl, d, n) ==
    LET r == IF d.backend = "sodium" THEN sodium_generate(bl, d, n)
             ELSE pure_generate(bl, d, n)
    IN  [r EXCEPT !.d = [d EXCEPT !.counter = d.counter + n \div 64]]

\* ChaCha20DRBG.generate(n)
generate(bl, d, n) ==
    IF d.backend = "sodium" THEN sodium_generate(bl, d, n)
    ELSE pure_generate(bl, d, n)

\* reseed mixing the entropy without the counter: a mutant
reseed_nocounter(hm, d, entropy) ==
    IF entropy = <<>>
    THEN [hmacs |-> hm, d |-> d]
    ELSE LET m == hkdf_mix(hm, d.key, entropy, MaterialBytes)
         IN  [hmacs |-> m.hmacs,
              d |-> [d EXCEPT !.key = SubSeq(m.out, 1, KeyBytes),
                              !.nonce = SubSeq(m.out, KeyBytes + 1,
                                               MaterialBytes),
                              !.counter = 0]]

\* reseed(entropy) of both backends
reseed(hm, d, entropy) ==
    IF entropy = <<>>
    THEN [hmacs |-> hm, d |-> d]
    ELSE LET m == hkdf_mix(hm, d.key, entropy \o LE64(d.counter),
                           MaterialBytes)
         IN  [hmacs |-> m.hmacs,
              d |-> [d EXCEPT !.key = SubSeq(m.out, 1, KeyBytes),
                              !.nonce = SubSeq(m.out, KeyBytes + 1,
                                               MaterialBytes),
                              !.counter = 0]]

----------------------------------------------------------------------------
\* AleaMaris. An RNG value r is [drbg, generated, buf, pos].

NoRngLocals == [id |-> 0, n |-> 0, out |-> <<>>, available |-> 0,
                need |-> 0, take |-> 0, chunk |-> <<>>, entropy |-> <<>>,
                material |-> <<>>]

\* the source of the specifications that have none
NoSource ==
    [kind |-> "none", total |-> 0, counted |-> TRUE, bad |-> {},
     alive |-> FALSE, released |-> FALSE, releases |-> 0, rewinds |-> 0]

\* TRNGGenerator.__init__: the counters of a new generator
NewGen ==
    [pass_counter |-> 0, global_counter |-> 0, key_frames_since_reseed |-> 0,
     rotations |-> 0, calls |-> 0, returns |-> 0, cfg_bytes_total |-> 0]

\* no call of produce was made yet
NoProduce ==
    [st |-> "idle", path |-> "none", via |-> "none", n |-> 0, old |-> 0,
     why |-> "none", bytes_total |-> 0, stride |-> 1,
     want |-> 0, total |-> 0, produced |-> <<>>, indices |-> <<>>, p |-> 0,
     frame_idx |-> 0, prev |-> FALSE, frames |-> 0, passgood |-> 0,
     dry |-> 0, deadreads |-> 0]

\* the threads that call _seed_provider and
\* _try_bytes_from_video_or_cam: the event loop (boot, filler) and a worker
\* thread (a handler that reseeds)
HostProcs == {"loop", "w1"}

\* GenConfig.bytes_total as the service starts
DefaultBytesTotal == 1024

\* a process started with no source and without the fallback
NoEnv == [src |-> "none", urandom |-> FALSE]

\* the locals of a thread that is in no call
NoHostLocals ==
    [op |-> "none", n |-> 0, saw |-> 0, want |-> 0, tried |-> FALSE,
     extra |-> <<>>, ret |-> <<>>, calls |-> 0]

\* the process before api/app.py is imported
NoService ==
    [phase |-> "import", err |-> "none", ftask |-> FALSE, rtask |-> FALSE,
     open |-> TRUE, served |-> FALSE, ingested |-> FALSE, reseeds |-> 0,
     fexc |-> FALSE,
     fill |-> [offered |-> FALSE, saw |-> 0, asked |-> 0, got |-> 0,
               after |-> 0],
     health |-> [asked |-> FALSE, available |-> 0]]

\* no thread is in a call, the service is not started
NoHost ==
    /\ hcfg = DefaultBytesTotal
    /\ hpc = [p \in HostProcs |-> "idle"]
    /\ hloc = [p \in HostProcs |-> NoHostLocals]
    /\ svc = NoService

\* no sampler was called yet
NoSample ==
    [op |-> "none", st |-> "idle", n |-> 0, a |-> 0, b |-> 0, ret |-> 0,
     draws |-> 0, x |-> 0, acc |-> FALSE,
     before |-> [drbg |-> [backend |-> "none", key |-> <<>>, nonce |-> <<>>,
                           counter |-> 0],
                 generated |-> 0, buf |-> <<>>, pos |-> 0]]

\* no call of random_bytes or reseed was made yet
NoRngCall ==
    [fresh |-> FALSE, rs |-> FALSE, n |-> 0, out |-> <<>>, extra |-> <<>>,
     asked |-> 0, entropy |-> <<>>,
     before |-> [drbg |-> [backend |-> "none", key |-> <<>>, nonce |-> <<>>,
                           counter |-> 0],
                 generated |-> 0, buf |-> <<>>, pos |-> 0]]

\* the RNG before its first call, no call in progress
NoRng ==
    /\ generated = 0
    /\ buf = <<>>
    /\ buf_pos = 0
    /\ lastrb = NoRngCall
    /\ rbcalls = 0
    /\ areseeds = 0
    /\ apc = [p \in RngProcs |-> "idle"]
    /\ aloc = [p \in RngProcs |-> NoRngLocals]
    /\ handed = <<>>
    /\ ctorlog = <<>>
    /\ scall = NoSample
    /\ sdraws = 0
    /\ gsrc = NoSource
    /\ gen = NewGen
    /\ gcall = NoProduce
    /\ env = NoEnv
    /\ NoHost

\* buf[lo:hi] of Python for 0 <= lo
Slice(s, lo, hi) == SubSeq(s, lo + 1, Min(hi, Len(s)))

\* _fill_buffer(need)
fill_buffer(bl, r, need) ==
    LET take == Max(need, BufChunk)
        g == generate(bl, r.drbg, take)
    IN  [blocks |-> g.blocks,
         r |-> [r EXCEPT !.drbg = g.d, !.buf = g.out, !.pos = 0]]

\* what maybe_reseed asks the seed provider for
ReseedAsk == 32

\* maybe_reseed resetting generated only when it reseeds: a mutant
maybe_reseed_keep(hm, r, extra) ==
    IF r.generated >= ReseedInterval
    THEN IF extra # <<>>
         THEN LET s == reseed(hm, r.drbg, extra)
              IN  [hmacs |-> s.hmacs, asked |-> ReseedAsk,
                   r |-> [r EXCEPT !.drbg = s.d, !.generated = 0]]
         ELSE [hmacs |-> hm, asked |-> ReseedAsk, r |-> r]
    ELSE [hmacs |-> hm, asked |-> 0, r |-> r]

\* maybe_reseed(), extra being what self.seed_provider(32) returns if called;
\* asked is the number of bytes the provider was asked for, 0 if it was not
maybe_reseed(hm, r, extra) ==
    IF r.generated >= ReseedInterval
    THEN IF extra # <<>>
         THEN LET s == reseed(hm, r.drbg, extra)
              IN  [hmacs |-> s.hmacs, asked |-> ReseedAsk,
                   r |-> [r EXCEPT !.drbg = s.d, !.generated = 0]]
         ELSE [hmacs |-> hm, asked |-> ReseedAsk,
               r |-> [r EXCEPT !.generated = 0]]
    ELSE [hmacs |-> hm, asked |-> 0, r |-> r]

\* one pass of the loop leaving _buf_pos where it was: a mutant
rb_pass_nopos(bl, r, n, out) ==
    LET need == n - Len(out)
    IN  CHOOSE y \in
            { LET avail == Len(f.r.buf) - f.r.pos
                  take == IF need < avail THEN need ELSE avail
              IN  [blocks |-> f.blocks,
                   r |-> f.r,
                   out |-> out \o Slice(f.r.buf, f.r.pos, f.r.pos + take)]
              : f \in { IF Len(r.buf) - r.pos <= 0
                        THEN fill_buffer(bl, r, need)
                        ELSE [blocks |-> bl, r |-> r] } } : TRUE

\* lines 43-50: one pass of the while loop of random_bytes
\* (f \in {e} names the value of e)
rb_pass(bl, r, n, out) ==
    LET need == n - Len(out)
    IN  CHOOSE y \in
            { LET avail == Len(f.r.buf) - f.r.pos
                  take == IF need < avail THEN need ELSE avail
              IN  [blocks |-> f.blocks,
                   r |-> [f.r EXCEPT !.pos = f.r.pos + take],
                   out |-> out \o Slice(f.r.buf, f.r.pos, f.r.pos + take)]
              : f \in { IF Len(r.buf) - r.pos <= 0
                        THEN fill_buffer(bl, r, need)
                        ELSE [blocks |-> bl, r |-> r] } } : TRUE

RECURSIVE rb_loop(_, _, _, _)
\* the while loop of random_bytes (lines 42-50)
rb_loop(bl, r, n, out) ==
    IF Len(out) < n
    THEN CHOOSE y \in { rb_loop(s.blocks, s.r, n, s.out)
                        : s \in {rb_pass(bl, r, n, out)} } : TRUE
    ELSE [blocks |-> bl, r |-> r, out |-> out]

\* random_bytes(n), extra being what self.seed_provider(32) returns if called
random_bytes(hm, bl, r, n, extra) ==
    IF n <= 0
    THEN [hmacs |-> hm, blocks |-> bl, r |-> r, out |-> <<>>, asked |-> 0]
    ELSE CHOOSE y \in
             { LET m == maybe_reseed(hm, [l.r EXCEPT !.generated = @ + n],
                                     extra)
               IN  [hmacs |-> m.hmacs, blocks |-> l.blocks, r |-> m.r,
                    out |-> l.out, asked |-> m.asked]
               : l \in {rb_loop(bl, r, n, <<>>)} } : TRUE

\* AleaMaris.reseed(entropy)
alea_reseed(hm, r, entropy) ==
    LET s == reseed(hm, r.drbg, entropy)
    IN  [hmacs |-> s.hmacs, r |-> [r EXCEPT !.drbg = s.d]]

\* the seed AleaMaris must at least get, and what it asks its provider for
AleaMinSeed == 32
SeedAsk == 48

\* AleaMaris(seed_provider), seed being what seed_provider(48) returns;
\* err when the construction raises
alea_init(hm, backend, seed) ==
    IF Len(seed) < AleaMinSeed
    THEN [hmacs |-> hm, err |-> TRUE,
          r |-> [drbg |-> [backend |-> "none", key |-> <<>>, nonce |-> <<>>,
                           counter |-> 0],
                 generated |-> 0, buf |-> <<>>, pos |-> 0]]
    ELSE LET i == drbg_init(hm, backend, seed)
         IN  [hmacs |-> i.hmacs, err |-> i.err,
              r |-> [drbg |-> i.d, generated |-> 0, buf |-> <<>>, pos |-> 0]]

\* the RNG of the state
RNG == [drbg |-> drbg, generated |-> generated, buf |-> buf, pos |-> buf_pos]

----------------------------------------------------------------------------
\* The queue used by one caller at a time

NoCall == [op |-> "none", data |-> <<>>, count |-> 0, ret |-> 0,
           out |-> <<>>, chunks |-> <<>>, size |-> 0]

NoLocals == [count |-> 0, data |-> <<>>, to_write |-> 0, out |-> <<>>,
             remaining |-> 0, head |-> <<>>]

\* no call of the queue is in progress
InitThreads ==
    /\ pc = [p \in Procs |-> "idle"]
    /\ loc = [p \in Procs |-> NoLocals]
    /\ raised = 0

\* TrngQueue(cap_bytes) for a ceiling cap_bytes >= 0
InitQueue ==
    /\ InitThreads
    /\ NoDrbg
    /\ NoRng
    /\ chunks = <<>>
    /\ cap \in 0..MaxCap
    /\ size = 0
    /\ serial = 0
    /\ offered = <<>>
    /\ polled = <<>>
    /\ last = NoCall

\* a call of offer with a block of n outside bytes
Offer(n) ==
    /\ serial + n <= MaxSerial
    /\ LET data == Outside(serial, n)
           r == offer(Q, data)
       IN  /\ chunks' = r.chunks
           /\ size' = r.size
           /\ serial' = serial + n
           /\ offered' = offered \o Take(data, r.ret)
           /\ last' = [op |-> "offer", data |-> data, count |-> 0,
                       ret |-> r.ret, out |-> <<>>,
                       chunks |-> chunks, size |-> size]
    /\ UNCHANGED <<cap, polled, OtherThanQ>>

\* a call of poll(count)
Poll(count) ==
    /\ LET r == poll(Q, count)
       IN  /\ chunks' = r.chunks
           /\ size' = r.size
           /\ polled' = polled \o r.out
           /\ last' = [op |-> "poll", data |-> <<>>, count |-> count,
                       ret |-> 0, out |-> r.out,
                       chunks |-> chunks, size |-> size]
    /\ UNCHANGED <<cap, serial, offered, OtherThanQ>>

NextQueue ==
    \/ \E n \in 0..MaxBlock : Offer(n)
    \/ \E count \in (-1)..MaxPoll : Poll(count)

SpecQueue == InitQueue /\ [][NextQueue]_vars

----------------------------------------------------------------------------
\* C1: after any sequence of offer and poll calls, available() is the number
\* of bytes the offers wrote minus the number of bytes the polls returned,
\* and it is never negative and never above cap.
C1_Available ==
    /\ available(Q) = Len(offered) - Len(polled)
    /\ 0 <= available(Q)
    /\ available(Q) <= cap

\* C1 witness: a truncated offer and a poll have both happened and bytes remain
C1_Witness ==
    /\ serial > Len(offered)
    /\ Len(polled) > 0
    /\ available(Q) > 0

\* C2: the bytes returned by the polls, in call order, are a prefix of the
\* bytes accepted by the offers, in call order; what is still stored is the
\* rest of them, in order.
C2_Fifo ==
    /\ IsPrefix(polled, offered)
    /\ polled \o Flatten(chunks) = offered

\* C2 witness: a poll has split a block of a queue holding two blocks' bytes
C2_Witness ==
    /\ last.op = "poll"
    /\ Len(last.chunks) >= 2
    /\ Len(chunks) = Len(last.chunks)
    /\ Len(polled) > 0
    /\ chunks # last.chunks

\* C3: offer returns min(len(block), cap - size), stores exactly that many
\* leading bytes of the block at the tail and adds as much to size; on a full
\* queue or an empty block it returns 0 and changes nothing.
C3_Offer ==
    last.op = "offer" =>
        /\ last.ret = Min(Len(last.data), cap - last.size)
        /\ Flatten(chunks) = Flatten(last.chunks) \o Take(last.data, last.ret)
        /\ size = last.size + last.ret
        /\ (last.size = cap \/ Len(last.data) = 0) =>
               /\ last.ret = 0
               /\ chunks = last.chunks
               /\ size = last.size

\* C3 witness: an offer that was truncated to the room left
C3_Witness ==
    /\ last.op = "offer"
    /\ last.ret > 0
    /\ last.ret < Len(last.data)
    /\ last.size > 0

\* C4: poll(n) returns min(n, size) bytes for n >= 1 and nothing for n <= 0
\* or an empty queue; the bytes returned are the head of the queue, they are
\* removed, size drops by their number and the rest stays in order.
C4_Poll ==
    last.op = "poll" =>
        /\ Len(last.out) = (IF last.count >= 1
                            THEN Min(last.count, last.size) ELSE 0)
        /\ last.out \o Flatten(chunks) = Flatten(last.chunks)
        /\ size = last.size - Len(last.out)
        /\ size = SumLen(chunks)
        /\ \A i \in 1..Len(chunks) : Len(chunks[i]) > 0

\* C4 witness: one poll consumed a whole block and split the next one
C4_Witness ==
    /\ last.op = "poll"
    /\ Len(last.chunks) >= 2
    /\ Len(last.out) > Len(last.chunks[1])
    /\ Len(last.out) < Len(last.chunks[1]) + Len(last.chunks[2])
    /\ chunks # <<>>
    /\ chunks[1] = Drop(last.chunks[2], Len(last.out) - Len(last.chunks[1]))

----------------------------------------------------------------------------
\* The queue called from several threads. TrngQueue holds no lock, so a call
\* running on a worker thread proceeds statement by statement between the
\* statements of a call running on another thread: one step below is one
\* statement of queue.py that reads or writes the queue (statements on
\* locals only are taken together with the one before them).

\* thread p goes on to the statement at label
Goto(p, label) ==
    /\ pc' = [pc EXCEPT ![p] = label]
    /\ UNCHANGED OtherThanT

\* the call returns: its locals are dropped
Return(p) ==
    /\ pc' = [pc EXCEPT ![p] = "idle"]
    /\ loc' = [loc EXCEPT ![p] = NoLocals]
    /\ UNCHANGED OtherThanT

\* the filler task or the ingest handler calls q.offer with n outside bytes
TOfferCall(p, n) ==
    /\ p = "loop"
    /\ pc[p] = "idle"
    /\ serial + n <= TMaxSerial
    /\ serial' = serial + n
    /\ loc' = [loc EXCEPT ![p].data = Outside(serial, n)]
    /\ Goto(p, "o14")
    /\ UNCHANGED <<chunks, size, cap, offered, polled, last, raised>>

\* lines 14-19: room, to_write and the two early returns
TOffer14(p) ==
    /\ pc[p] = "o14"
    /\ LET room == cap - size
           to_write == Min(Len(loc[p].data), room)
       IN  IF room <= 0 \/ to_write <= 0
           THEN Return(p)
           ELSE /\ loc' = [loc EXCEPT ![p].to_write = to_write]
                /\ Goto(p, "o21")
    /\ UNCHANGED <<qvars, raised>>

\* lines 21 and 25: self.chunks.append(data) or append(data[:to_write])
TOffer21(p) ==
    /\ pc[p] = "o21"
    /\ chunks' = Append(chunks, Take(loc[p].data, loc[p].to_write))
    /\ offered' = offered \o Take(loc[p].data, loc[p].to_write)
    /\ Goto(p, "o22")
    /\ UNCHANGED <<size, cap, serial, polled, last, loc, raised>>

\* lines 22-23 and 26-27: self.size += to_write; return to_write
TOffer22(p) ==
    /\ pc[p] = "o22"
    /\ size' = size + loc[p].to_write
    /\ Return(p)
    /\ UNCHANGED <<chunks, cap, serial, offered, polled, last, raised>>

\* a handler (get_bytes, _reseed_from_queue, _seed_provider) calls q.poll
TPollCall(p, count) ==
    /\ pc[p] = "idle"
    /\ loc' = [loc EXCEPT ![p].count = count]
    /\ Goto(p, "p30")
    /\ UNCHANGED <<qvars, raised>>

\* lines 30-34: the early return, then n, out and remaining
TPoll30(p) ==
    /\ pc[p] = "p30"
    /\ IF size = 0 \/ loc[p].count <= 0
       THEN Return(p)
       ELSE /\ loc' = [loc EXCEPT ![p].remaining = Min(loc[p].count, size)]
            /\ Goto(p, "p35")
    /\ UNCHANGED <<qvars, raised>>

\* line 35: while remaining > 0 and self.chunks; line 47: return bytes(out)
TPoll35(p) ==
    /\ pc[p] = "p35"
    /\ IF loc[p].remaining > 0 /\ chunks # <<>>
       THEN /\ Goto(p, "p36")
            /\ UNCHANGED <<polled, loc>>
       ELSE /\ polled' = polled \o loc[p].out
            /\ Return(p)
    /\ UNCHANGED <<chunks, size, cap, serial, offered, last, raised>>

\* a call ends by raising IndexError: the bytes in out are dropped
Raise(p) ==
    /\ raised' = raised + 1
    /\ Return(p)

\* lines 36-37: head = self.chunks[0]; if len(head) <= remaining
TPoll36(p) ==
    /\ pc[p] = "p36"
    /\ IF chunks = <<>>
       THEN Raise(p)
       ELSE /\ loc' = [loc EXCEPT ![p].head = chunks[1]]
            /\ Goto(p, IF Len(chunks[1]) <= loc[p].remaining
                       THEN "p38" ELSE "p43")
            /\ UNCHANGED raised
    /\ UNCHANGED qvars

\* lines 38-40: out += head; self.size -= len(head); remaining -= len(head)
TPoll38(p) ==
    /\ pc[p] = "p38"
    /\ size' = size - Len(loc[p].head)
    /\ loc' = [loc EXCEPT ![p].out = @ \o loc[p].head,
                          ![p].remaining = @ - Len(loc[p].head)]
    /\ Goto(p, "p41")
    /\ UNCHANGED <<chunks, cap, serial, offered, polled, last, raised>>

\* line 41: self.chunks.popleft()
TPoll41(p) ==
    /\ pc[p] = "p41"
    /\ IF chunks = <<>>
       THEN /\ Raise(p)
            /\ UNCHANGED chunks
       ELSE /\ chunks' = Tail(chunks)
            /\ Goto(p, "p35")
            /\ UNCHANGED <<loc, raised>>
    /\ UNCHANGED <<size, cap, serial, offered, polled, last>>

\* lines 43-44: out += head[:remaining]; self.chunks[0] = head[remaining:]
TPoll43(p) ==
    /\ pc[p] = "p43"
    /\ IF chunks = <<>>
       THEN /\ Raise(p)
            /\ UNCHANGED chunks
       ELSE /\ chunks' = [chunks EXCEPT
                             ![1] = Drop(loc[p].head, loc[p].remaining)]
            /\ loc' = [loc EXCEPT
                          ![p].out = @ \o Take(loc[p].head, loc[p].remaining)]
            /\ Goto(p, "p45")
            /\ UNCHANGED raised
    /\ UNCHANGED <<size, cap, serial, offered, polled, last>>

\* lines 45-46: self.size -= remaining; remaining = 0
TPoll45(p) ==
    /\ pc[p] = "p45"
    /\ size' = size - loc[p].remaining
    /\ loc' = [loc EXCEPT ![p].remaining = 0]
    /\ Goto(p, "p35")
    /\ UNCHANGED <<chunks, cap, serial, offered, polled, last, raised>>

NextThreads ==
    \E p \in Procs :
        \/ \E n \in 1..TMaxBlock : TOfferCall(p, n)
        \/ TOffer14(p)
        \/ TOffer21(p)
        \/ TOffer22(p)
        \/ \E count \in 1..TMaxPoll : TPollCall(p, count)
        \/ TPoll30(p)
        \/ TPoll35(p)
        \/ TPoll36(p)
        \/ TPoll38(p)
        \/ TPoll41(p)
        \/ TPoll43(p)
        \/ TPoll45(p)

SpecThreads == InitQueue /\ [][NextThreads]_vars

\* no call of the queue is in progress
Quiescent == \A p \in Procs : pc[p] = "idle"

NoDuplicate(s) == \A i, j \in 1..Len(s) : s[i] = s[j] => i = j

InSeq(b, s) == \E i \in 1..Len(s) : s[i] = b

\* C5: the calls of the queue made from the threads of the service take
\* effect one at a time: whenever no call is in progress size is the sum of
\* the stored block lengths, no byte has been returned by two polls, and
\* every byte an offer accepted is either stored or was returned by a poll
\* (so no call raised).
C5_Atomic ==
    /\ NoDuplicate(polled)
    /\ Quiescent =>
           /\ size = SumLen(chunks)
           /\ raised = 0
           /\ \A i \in 1..Len(offered) :
                  InSeq(offered[i], polled) \/ InSeq(offered[i], Flatten(chunks))

----------------------------------------------------------------------------
\* The DRBG used by one caller at a time

\* the sizes asked of generate
GenSizes == {0, 1, 64, 65}

\* the lengths of the seed the DRBG is built from
SeedLens == {32}

\* the entropy handed to reseed: none, or two outside bytes
Entropies == {<<>>, Outside(100, 2)}

\* entropy to compare the effect of reseed with
OtherEntropies == {Outside(100, 1), Outside(100, 2), Outside(101, 2)}

\* ChaCha20DRBG(seed) on either backend, for a seed that is long enough
InitDrbg ==
    /\ InitThreads
    /\ NoRng
    /\ chunks = <<>> /\ cap = 0 /\ size = 0 /\ serial = 0
    /\ offered = <<>> /\ polled = <<>> /\ last = NoCall
    /\ blocks = <<>>
    /\ \E backend \in {"pure", "sodium"}, n \in SeedLens :
           LET r == drbg_init(<<>>, backend, Outside(0, n))
           IN  hmacs = r.hmacs /\ drbg = r.d
    /\ acc = <<>>
    /\ sizes = <<>>
    /\ ctrlog = <<>>
    /\ lastgen = [fresh |-> FALSE, n |-> 0, counter |-> 0, out |-> <<>>]
    /\ rlog = <<>>
    /\ drawn = 0
    /\ gens = 0

\* a call of generate(n)
DGenerate(n) ==
    /\ drawn + n <= MaxDrawn
    /\ gens < MaxGens
    /\ gens' = gens + 1
    /\ \E r \in {generate(blocks, drbg, n)} :
           /\ blocks' = r.blocks
           /\ drbg' = r.d
           /\ acc' = acc \o r.out
           /\ ctrlog' = ctrlog \o r.used
           /\ lastgen' = [fresh |-> TRUE, n |-> n, counter |-> drbg.counter,
                          out |-> r.out]
    /\ sizes' = Append(sizes, n)
    /\ drawn' = drawn + n
    /\ UNCHANGED <<hmacs, rlog, OtherThanD>>

\* a call of reseed(entropy)
DReseed(entropy) ==
    /\ Len(rlog) < MaxReseeds
    /\ \E r \in {reseed(hmacs, drbg, entropy)} :
           /\ hmacs' = r.hmacs
           /\ drbg' = r.d
           /\ rlog' = Append(rlog, [entropy |-> entropy, before |-> drbg,
                                    after |-> r.d])
    /\ IF entropy = <<>>
       THEN UNCHANGED <<acc, sizes, ctrlog>>
       ELSE acc' = <<>> /\ sizes' = <<>> /\ ctrlog' = <<>>
    /\ lastgen' = [lastgen EXCEPT !.fresh = FALSE]
    /\ UNCHANGED <<blocks, drawn, gens, OtherThanD>>

NextDrbg ==
    \/ \E n \in GenSizes : DGenerate(n)
    \/ \E entropy \in Entropies : DReseed(entropy)

SpecDrbg == InitDrbg /\ [][NextDrbg]_vars

RECURSIVE Sum(_)
Sum(ns) == IF ns = <<>> THEN 0 ELSE Head(ns) + Sum(Tail(ns))

\* every call of generate under the current key but the last asked for a
\* multiple of 64 bytes
AllButLastWhole ==
    \A i \in 1..(Len(sizes) - 1) : sizes[i] % BlockBytes = 0

\* what one call of generate for all the bytes asked for under the current
\* key returns
OneCall == generate(blocks, [drbg EXCEPT !.counter = 0], Sum(sizes)).out

\* C8 as stated: under one key the outputs of generate(n1), ..., generate(nk)
\* joined are the output of generate(n1 + ... + nk), for all sizes.
C8_SplitAnySizes == acc = OneCall

\* C8 amended: under one key the outputs of generate(n1), ..., generate(nk)
\* joined are the output of generate(n1 + ... + nk) when n1, ..., n(k-1)
\* are multiples of 64.
C8_SplitWholeBlocks == AllButLastWhole => acc = OneCall

\* C8 witness: a call for one whole block, then a call for a block and a byte
C8_Witness ==
    /\ Len(sizes) = 2
    /\ sizes[1] = 64
    /\ sizes[2] = 65
    /\ Len(acc) = 129

\* C9: generate(n) returns n bytes and moves counter on by ceil(n / 64);
\* under one key the counters handed to the cipher are 0, 1, 2, ... in this
\* order, none twice, and counter is the next one.
C9_Counter ==
    /\ lastgen.fresh =>
           /\ Len(lastgen.out) = lastgen.n
           /\ drbg.counter * BlockBytes >= lastgen.counter * BlockBytes + lastgen.n
           /\ drbg.counter * BlockBytes < lastgen.counter * BlockBytes + lastgen.n
                                              + BlockBytes
    /\ Len(ctrlog) = drbg.counter
    /\ \A i \in 1..Len(ctrlog) : ctrlog[i] = i - 1

\* C9 witness: a call for 65 bytes moved a counter that was not 0 on by 2
C9_Witness ==
    /\ lastgen.fresh
    /\ lastgen.n = 65
    /\ lastgen.counter > 0
    /\ drbg.counter = lastgen.counter + 2

\* the key and nonce reseed would install from the state d and entropy e
Installed(d, e) ==
    LET r == reseed(hmacs, d, e).d
    IN  <<r.key, r.nonce>>

\* C10: reseed with no entropy changes nothing; with entropy the new key and
\* nonce are bytes 0..31 and 32..43 of HKDF-mix(old key, entropy || le64(old
\* counter), 44) and counter is 0; another old key, old counter or entropy
\* would have installed another key and another nonce.
C10_Reseed ==
    \A k \in {Len(rlog)} \ {0} :
        LET e == rlog[k]
            m == hkdf_mix(hmacs, e.before.key,
                          e.entropy \o LE64(e.before.counter), 44).out
        IN  IF e.entropy = <<>>
            THEN e.after = e.before
            ELSE /\ e.after.key = SubSeq(m, 1, 32)
                 /\ e.after.nonce = SubSeq(m, 33, 44)
                 /\ Len(e.after.key) = 32
                 /\ Len(e.after.nonce) = 12
                 /\ e.after.counter = 0
                 /\ e.after.backend = e.before.backend
                 /\ \A c \in 0..3 : c # e.before.counter =>
                        /\ Installed([e.before EXCEPT !.counter = c],
                                     e.entropy)[1] # e.after.key
                        /\ Installed([e.before EXCEPT !.counter = c],
                                     e.entropy)[2] # e.after.nonce
                 /\ \A x \in OtherEntropies \ {e.entropy} :
                        /\ Installed(e.before, x)[1] # e.after.key
                        /\ Installed(e.before, x)[2] # e.after.nonce
                 /\ \A j \in 1..Len(rlog) :
                        rlog[j].before.key # e.before.key =>
                            /\ Installed([e.before EXCEPT
                                             !.key = rlog[j].before.key],
                                         e.entropy)[1] # e.after.key
                            /\ Installed([e.before EXCEPT
                                             !.key = rlog[j].before.key],
                                         e.entropy)[2] # e.after.nonce

\* C10 witness: a reseed with entropy at a counter that was not 0, after a
\* reseed with entropy and a reseed without
C10_Witness ==
    /\ Len(rlog) = 2
    /\ rlog[1].entropy # <<>>
    /\ rlog[2].entropy # <<>>
    /\ rlog[2].before.counter > 0
    /\ rlog[2].before.key = rlog[1].after.key
    /\ drbg = rlog[2].after

\* C12: what generate returns is the IETF ChaCha20 keystream (RFC 7539) of
\* the DRBG's key and nonce from the block counter the call started at, on
\* either backend.
C12_Ietf ==
    lastgen.fresh =>
        lastgen.out = ietf_stream(blocks, lastgen.n, drbg.nonce,
                                  lastgen.counter, drbg.key, <<>>, <<>>).out

----------------------------------------------------------------------------
\* The RNG used by one caller at a time

\* the sizes asked of random_bytes
RbSizes == {0, 1, 3, 5}

\* what the seed provider may return when asked for n bytes: nothing, or n
\* outside bytes
Provided(n) == {<<>>, Outside(200, n)}

\* AleaMaris(seed_provider) with a provider that returns the 48 bytes asked
InitAlea ==
    /\ InitThreads
    /\ chunks = <<>> /\ cap = 0 /\ size = 0 /\ serial = 0
    /\ offered = <<>> /\ polled = <<>> /\ last = NoCall
    /\ blocks = <<>>
    /\ \E backend \in {"pure", "sodium"} :
           LET r == drbg_init(<<>>, backend, Outside(0, 48))
           IN  hmacs = r.hmacs /\ drbg = r.d
    /\ acc = <<>> /\ sizes = <<>> /\ ctrlog = <<>>
    /\ lastgen = [fresh |-> FALSE, n |-> 0, counter |-> 0, out |-> <<>>]
    /\ rlog = <<>> /\ drawn = 0 /\ gens = 0
    /\ NoRng

\* the RNG r becomes the RNG of the state
SetRng(r) ==
    /\ drbg' = r.drbg
    /\ generated' = r.generated
    /\ buf' = r.buf
    /\ buf_pos' = r.pos

\* a call of random_bytes(n)
ARandomBytes(n) ==
    /\ rbcalls < MaxRbCalls
    /\ rbcalls' = rbcalls + 1
    /\ \E extra \in Provided(32) :
           \E x \in {random_bytes(hmacs, blocks, RNG, n, extra)} :
               /\ hmacs' = x.hmacs
               /\ blocks' = x.blocks
               /\ SetRng(x.r)
               /\ lastrb' = [fresh |-> TRUE, rs |-> FALSE, n |-> n,
                             out |-> x.out, extra |-> extra,
                             asked |-> x.asked, entropy |-> <<>>,
                             before |-> RNG]
    /\ UNCHANGED <<areseeds, OtherThanA>>

\* a call of reseed(entropy)
AReseed(entropy) ==
    /\ areseeds < MaxAReseeds
    /\ areseeds' = areseeds + 1
    /\ \E x \in {alea_reseed(hmacs, RNG, entropy)} :
           /\ hmacs' = x.hmacs
           /\ SetRng(x.r)
    /\ lastrb' = [lastrb EXCEPT !.fresh = FALSE, !.rs = TRUE,
                                !.entropy = entropy, !.before = RNG]
    /\ UNCHANGED <<blocks, rbcalls, OtherThanA>>

NextAlea ==
    \/ \E n \in RbSizes : ARandomBytes(n)
    \/ \E entropy \in Entropies : AReseed(entropy)

SpecAlea == InitAlea /\ [][NextAlea]_vars

\* the key and nonce of the keystream the byte b comes from: words 4..11
\* and the last 8 bytes of the input of its ChaCha20 block
StreamOf(b) ==
    LET in == blocks[0 - 1 - b[1]]
    IN  <<SubSeq(in, 17, 48), SubSeq(in, 57, 64)>>

\* C7: the bytes one call of random_bytes returns come from one keystream:
\* that of the key and nonce before a reseed or that of the key and nonce
\* it installed, never from both.
C7_OneStream ==
    \A i, j \in 1..Len(lastrb.out) :
        StreamOf(lastrb.out[i]) = StreamOf(lastrb.out[j])

\* the bytes of the buffer of the RNG r not yet handed out
Left(r) == Slice(r.buf, r.pos, Len(r.buf))

\* C13: random_bytes(n) returns n bytes (none, changing nothing, for
\* n <= 0): the bytes left in the buffer in their order, then, only if those
\* are too few, the first bytes of generate(max(need, buf_chunk)), which
\* becomes the buffer; and 0 <= pos <= len(buf) in every state.
C13_RandomBytes ==
    /\ 0 <= buf_pos /\ buf_pos <= Len(buf)
    /\ lastrb.fresh =>
           LET b == lastrb.before
               n == lastrb.n
           IN  IF n <= 0
               THEN /\ lastrb.out = <<>>
                    /\ RNG = b
               ELSE /\ Len(lastrb.out) = n
                    /\ IF n <= Len(Left(b))
                       THEN /\ lastrb.out = Take(Left(b), n)
                            /\ buf = b.buf
                            /\ buf_pos = b.pos + n
                       ELSE LET need == n - Len(Left(b))
                                g == generate(blocks, b.drbg,
                                              Max(need, BufChunk))
                            IN  /\ lastrb.out = Left(b) \o Take(g.out, need)
                                /\ buf = g.out
                                /\ buf_pos = need

\* C13 witness: a call that takes the bytes left in a partly used buffer
\* and the rest from a refill
C13_Witness ==
    /\ lastrb.fresh
    /\ lastrb.before.pos > 0
    /\ Len(Left(lastrb.before)) > 0
    /\ lastrb.n > Len(Left(lastrb.before))
    /\ Len(lastrb.out) = lastrb.n
    /\ buf # lastrb.before.buf

\* the DRBG of the RNG when the loop of the last random_bytes call ended
AfterLoop ==
    LET b == lastrb.before
    IN  IF lastrb.n <= Len(Left(b)) THEN b.drbg
        ELSE generate(blocks, b.drbg,
                      Max(lastrb.n - Len(Left(b)), BufChunk)).d

\* C14: at the end of random_bytes(n), n >= 1, maybe_reseed acts exactly
\* when generated + n >= reseed_interval_bytes: it asks the provider for 32
\* bytes, reseeds the DRBG with them unless there are none, and sets
\* generated to 0; so generated < reseed_interval_bytes after every call.
C14_MaybeReseed ==
    /\ generated < ReseedInterval
    /\ (lastrb.fresh /\ lastrb.n > 0) =>
           LET g == lastrb.before.generated + lastrb.n
           IN  IF g >= ReseedInterval
               THEN /\ lastrb.asked = 32
                    /\ generated = 0
                    /\ drbg = reseed(hmacs, AfterLoop, lastrb.extra).d
                    /\ lastrb.extra = <<>> => drbg = AfterLoop
                    /\ lastrb.extra # <<>> =>
                           drbg.key # AfterLoop.key /\ drbg.counter = 0
               ELSE /\ lastrb.asked = 0
                    /\ generated = g
                    /\ drbg = AfterLoop

\* C14 witness: a call that reaches the interval and reseeds
C14_Witness ==
    /\ lastrb.fresh
    /\ lastrb.before.generated > 0
    /\ lastrb.before.generated + lastrb.n >= ReseedInterval
    /\ lastrb.extra # <<>>
    /\ generated = 0
    /\ drbg.key # lastrb.before.drbg.key

\* C15: reseed(entropy) reseeds the DRBG with the entropy; generated stays
\* as it is when the entropy is empty and becomes 0 when it is not.
C15_Reseed ==
    lastrb.rs =>
        /\ drbg = reseed(hmacs, lastrb.before.drbg, lastrb.entropy).d
        /\ lastrb.entropy = <<>> => generated = lastrb.before.generated
        /\ lastrb.entropy # <<>> => generated = 0

\* GET /rng/bytes?count=128 asks random_bytes for 128 bytes; here
HalfCount == 2

\* the seed of a second process: that of this one, or another
FreshSeeds == {Outside(0, 48), Outside(300, 48)}

\* C26: after a reseed with K, two calls of random_bytes for HalfCount
\* bytes return different bytes, and the two together are what one call for
\* twice HalfCount bytes returns in a second process, whatever its seed,
\* that was reseeded with K as well.
C26_ByKAlone ==
    (lastrb.rs /\ lastrb.entropy # <<>>) =>
        \A seed \in FreshSeeds :
            \E f0 \in {alea_init(hmacs, drbg.backend, seed)} :
            \E f1 \in {alea_reseed(f0.hmacs, f0.r, lastrb.entropy)} :
            \E f2 \in {random_bytes(f1.hmacs, blocks, f1.r, 2 * HalfCount,
                                    <<>>)} :
            \E p1 \in {random_bytes(f2.hmacs, f2.blocks, RNG, HalfCount,
                                    <<>>)} :
            \E p2 \in {random_bytes(p1.hmacs, p1.blocks, p1.r, HalfCount,
                                    <<>>)} :
                /\ p1.out # p2.out
                /\ p1.out \o p2.out = f2.out

----------------------------------------------------------------------------
\* The RNG called from several threads. AleaMaris holds no lock: rng_bytes,
\* rng_ints and the other handlers declared with a plain def run on worker
\* threads, the reseed task on the event loop. One step below is one
\* statement of alea.py (of chacha_drbg.py for reseed) that reads or writes
\* the RNG; drbg.generate and maybe_reseed are each taken as one step.

\* the threads that call random_bytes: the handlers that do (rng_bytes,
\* rng_ints, rng_u32_bin, rng_u32_jsonl) are declared with a plain def
RbProcs == RngProcs \ {"loop"}

AGoto(p, label) ==
    /\ apc' = [apc EXCEPT ![p] = label]
    /\ UNCHANGED OtherThanU

AReturn(p) ==
    /\ apc' = [apc EXCEPT ![p] = "idle"]
    /\ aloc' = [aloc EXCEPT ![p] = NoRngLocals]
    /\ UNCHANGED OtherThanU

\* a handler calls _rng.random_bytes(n) with n >= 1; lines 39-41
URandomBytes(p, n) ==
    /\ p \in RbProcs
    /\ apc[p] = "idle"
    /\ rbcalls < TMaxRbCalls
    /\ rbcalls' = rbcalls + 1
    /\ aloc' = [aloc EXCEPT ![p].n = n, ![p].id = rbcalls + 1]
    /\ AGoto(p, "r42")
    /\ UNCHANGED <<hmacs, blocks, drbg, generated, buf, buf_pos, areseeds,
                   handed>>

\* line 42: while len(out) < n
URb42(p) ==
    /\ apc[p] = "r42"
    /\ AGoto(p, IF Len(aloc[p].out) < aloc[p].n THEN "r43" ELSE "r51")
    /\ UNCHANGED <<hmacs, blocks, drbg, generated, buf, buf_pos, rbcalls,
                   areseeds, aloc, handed>>

\* lines 43-45: available, need, if available <= 0
URb43(p) ==
    /\ apc[p] = "r43"
    /\ LET avail == Len(buf) - buf_pos
       IN  /\ aloc' = [aloc EXCEPT ![p].available = avail,
                                   ![p].need = aloc[p].n - Len(aloc[p].out)]
           /\ AGoto(p, IF avail <= 0 THEN "f26" ELSE "r48")
    /\ UNCHANGED <<hmacs, blocks, drbg, generated, buf, buf_pos, rbcalls,
                   areseeds, handed>>

\* lines 25-26 of _fill_buffer: chunk = self.drbg.generate(take)
UFill26(p) ==
    /\ apc[p] = "f26"
    /\ \E g \in {generate(blocks, drbg, Max(aloc[p].need, BufChunk))} :
           /\ blocks' = g.blocks
           /\ drbg' = g.d
           /\ aloc' = [aloc EXCEPT ![p].chunk = g.out]
    /\ AGoto(p, "f28")
    /\ UNCHANGED <<hmacs, generated, buf, buf_pos, rbcalls, areseeds, handed>>

\* line 28: self._buf = bytearray(chunk)
UFill28(p) ==
    /\ apc[p] = "f28"
    /\ buf' = aloc[p].chunk
    /\ aloc' = [aloc EXCEPT ![p].chunk = <<>>]
    /\ AGoto(p, "f29")
    /\ UNCHANGED <<hmacs, blocks, drbg, generated, buf_pos, rbcalls, areseeds,
                   handed>>

\* line 29: self._buf_pos = 0; line 47: available = len(buf) - pos
UFill29(p) ==
    /\ apc[p] = "f29"
    /\ buf_pos' = 0
    /\ aloc' = [aloc EXCEPT ![p].available = Len(buf)]
    /\ AGoto(p, "r48")
    /\ UNCHANGED <<hmacs, blocks, drbg, generated, buf, rbcalls, areseeds,
                   handed>>

\* lines 48-49: take; out.extend(self._buf[pos:pos + take])
URb48(p) ==
    /\ apc[p] = "r48"
    /\ LET take == IF aloc[p].need < aloc[p].available THEN aloc[p].need
                   ELSE aloc[p].available
       IN  aloc' = [aloc EXCEPT
                       ![p].take = take,
                       ![p].out = @ \o Slice(buf, buf_pos, buf_pos + take)]
    /\ AGoto(p, "r50")
    /\ UNCHANGED <<hmacs, blocks, drbg, generated, buf, buf_pos, rbcalls,
                   areseeds, handed>>

\* line 50: self._buf_pos += take
URb50(p) ==
    /\ apc[p] = "r50"
    /\ buf_pos' = buf_pos + aloc[p].take
    /\ AGoto(p, "r42")
    /\ UNCHANGED <<hmacs, blocks, drbg, generated, buf, rbcalls, areseeds,
                   aloc, handed>>

\* line 51: self.generated += n
URb51(p) ==
    /\ apc[p] = "r51"
    /\ generated' = generated + aloc[p].n
    /\ AGoto(p, "r52")
    /\ UNCHANGED <<hmacs, blocks, drbg, buf, buf_pos, rbcalls, areseeds, aloc,
                   handed>>

\* lines 52-53: self.maybe_reseed(); return bytes(out)
URb52(p) ==
    /\ apc[p] = "r52"
    /\ \E extra \in Provided(32) :
           \E m \in {maybe_reseed(hmacs, RNG, extra)} :
               /\ hmacs' = m.hmacs
               /\ drbg' = m.r.drbg
               /\ generated' = m.r.generated
    /\ handed' = handed \o [i \in 1..Len(aloc[p].out) |->
                               [call |-> aloc[p].id, byte |-> aloc[p].out[i]]]
    /\ AReturn(p)
    /\ UNCHANGED <<blocks, buf, buf_pos, rbcalls, areseeds>>

\* the reseed task calls _rng.reseed(entropy) with entropy from the queue;
\* lines 80-82 of chacha_drbg.py: material = _hkdf_mix(...)
UReseed(p, entropy) ==
    /\ p = "loop"
    /\ apc[p] = "idle"
    /\ entropy # <<>>
    /\ areseeds < MaxAReseeds
    /\ areseeds' = areseeds + 1
    /\ \E m \in {hkdf_mix(hmacs, drbg.key, entropy \o LE64(drbg.counter),
                          MaterialBytes)} :
           /\ hmacs' = m.hmacs
           /\ aloc' = [aloc EXCEPT ![p].entropy = entropy,
                                   ![p].material = m.out]
    /\ AGoto(p, "s83")
    /\ UNCHANGED <<blocks, drbg, generated, buf, buf_pos, rbcalls, handed>>

\* line 83: self.key = material[:32]
UReseed83(p) ==
    /\ apc[p] = "s83"
    /\ drbg' = [drbg EXCEPT !.key = SubSeq(aloc[p].material, 1, KeyBytes)]
    /\ AGoto(p, "s84")
    /\ UNCHANGED <<hmacs, blocks, generated, buf, buf_pos, rbcalls, areseeds,
                   aloc, handed>>

\* line 84: self.nonce = material[32:44]
UReseed84(p) ==
    /\ apc[p] = "s84"
    /\ drbg' = [drbg EXCEPT !.nonce = SubSeq(aloc[p].material, KeyBytes + 1,
                                             MaterialBytes)]
    /\ AGoto(p, "s85")
    /\ UNCHANGED <<hmacs, blocks, generated, buf, buf_pos, rbcalls, areseeds,
                   aloc, handed>>

\* line 85: self.counter = 0
UReseed85(p) ==
    /\ apc[p] = "s85"
    /\ drbg' = [drbg EXCEPT !.counter = 0]
    /\ AReturn(p)
    /\ UNCHANGED <<hmacs, blocks, generated, buf, buf_pos, rbcalls, areseeds,
                   handed>>

NextAleaThreads ==
    \E p \in RngProcs :
        \/ \E n \in 1..TMaxRb : URandomBytes(p, n)
        \/ URb42(p)
        \/ URb43(p)
        \/ UFill26(p)
        \/ UFill28(p)
        \/ UFill29(p)
        \/ URb48(p)
        \/ URb50(p)
        \/ URb51(p)
        \/ URb52(p)
        \/ \E entropy \in Entropies : UReseed(p, entropy)
        \/ UReseed83(p)
        \/ UReseed84(p)
        \/ UReseed85(p)

SpecAleaThreads == InitAlea /\ [][NextAleaThreads]_vars

\* no call of the RNG is in progress
AQuiescent == \A p \in RngProcs : apc[p] = "idle"

\* C6: the calls of the RNG made from the threads of the service take effect
\* one at a time: no byte of the buffer is returned by two calls of
\* random_bytes, and whenever no call is in progress 0 <= pos <= len(buf).
C6_Serialised ==
    /\ \A i, j \in 1..Len(handed) :
           handed[i].byte = handed[j].byte => handed[i].call = handed[j].call
    /\ AQuiescent => (0 <= buf_pos /\ buf_pos <= Len(buf))

----------------------------------------------------------------------------
\* Construction of the DRBG and of the RNG

\* how many constructions in one run
MaxCtors == 2

\* how many calls of generate, and of random_bytes, follow in one run
BootCalls == 1

\* the sizes asked in those calls
BootSizes == {1, 5}

\* the lengths of the seed a construction is given
BootSeedLens == {0, 31, 32, 48}

\* nothing is constructed yet
InitBoot ==
    /\ InitThreads
    /\ chunks = <<>> /\ cap = 0 /\ size = 0 /\ serial = 0
    /\ offered = <<>> /\ polled = <<>> /\ last = NoCall
    /\ NoDrbg
    /\ NoRng

\* what the last construction that did not raise built
Built ==
    LET ok == {i \in 1..Len(ctorlog) : ~ctorlog[i].err}
    IN  IF ok = {} THEN "none"
        ELSE ctorlog[CHOOSE i \in ok : \A j \in ok : j <= i].kind

\* ChaCha20DRBG(seed) with a seed of k bytes; the backend is the one the
\* process has (_HAS_SODIUM)
NewDrbg(backend, k) ==
    /\ Len(ctorlog) < MaxCtors
    /\ drbg.backend \in {"none", backend}
    /\ \E x \in {drbg_init(hmacs, backend, Outside(0, k))} :
           /\ hmacs' = x.hmacs
           /\ drbg' = IF x.err THEN drbg ELSE x.d
           /\ ctorlog' = Append(ctorlog,
                  [kind |-> "drbg", asked |-> 0, got |-> k, err |-> x.err,
                   before |-> RNG,
                   after |-> [RNG EXCEPT !.drbg = IF x.err THEN drbg
                                                 ELSE x.d]])
    /\ acc' = <<>> /\ sizes' = <<>> /\ ctrlog' = <<>>
    /\ lastgen' = [lastgen EXCEPT !.fresh = FALSE]
    /\ UNCHANGED <<blocks, rlog, drawn, gens, qvars, tvars, avars, uvars,
                   svars, gvars, hvars>>

\* AleaMaris(seed_provider) with a provider that returns k bytes
NewAlea(backend, k) ==
    /\ Len(ctorlog) < MaxCtors
    /\ drbg.backend \in {"none", backend}
    /\ \E x \in {alea_init(hmacs, backend, Outside(0, k))} :
           /\ hmacs' = x.hmacs
           /\ IF x.err
              THEN UNCHANGED <<drbg, generated, buf, buf_pos>>
              ELSE SetRng(x.r)
           /\ ctorlog' = Append(ctorlog,
                  [kind |-> "alea", asked |-> SeedAsk, got |-> k,
                   err |-> x.err, before |-> RNG,
                   after |-> IF x.err THEN RNG ELSE x.r])
    /\ acc' = <<>> /\ sizes' = <<>> /\ ctrlog' = <<>>
    /\ lastgen' = [lastgen EXCEPT !.fresh = FALSE]
    /\ lastrb' = [lastrb EXCEPT !.fresh = FALSE, !.rs = FALSE]
    /\ UNCHANGED <<blocks, rlog, drawn, gens, rbcalls, areseeds, qvars, tvars,
                   uvars, svars, gvars, hvars>>

\* the DRBG that was built is asked for bytes
BGenerate(n) ==
    /\ Built = "drbg"
    /\ gens < BootCalls
    /\ DGenerate(n)

\* the RNG that was built is asked for bytes
BRandomBytes(n) ==
    /\ Built = "alea"
    /\ rbcalls < BootCalls
    /\ ARandomBytes(n)

NextBoot ==
    \/ \E backend \in {"pure", "sodium"}, k \in BootSeedLens :
           NewDrbg(backend, k)
    \/ \E backend \in {"pure", "sodium"}, k \in BootSeedLens :
           NewAlea(backend, k)
    \/ \E n \in BootSizes : BGenerate(n)
    \/ \E n \in BootSizes : BRandomBytes(n)

SpecBoot == InitBoot /\ [][NextBoot]_vars

\* C11: a construction raises exactly when its seed is shorter than 32
\* bytes, and then builds nothing; AleaMaris asks its provider for 48 bytes
\* and, when it does not raise, starts with generated = 0, an empty buffer
\* and a DRBG whose counter is 0.
C11_Seed ==
    \A i \in 1..Len(ctorlog) :
        LET c == ctorlog[i]
        IN  /\ c.err <=> c.got < 32
            /\ c.err => c.after = c.before
            /\ c.kind = "alea" => c.asked = 48
            /\ ~c.err =>
                   /\ c.after.drbg.backend # "none"
                   /\ Len(c.after.drbg.key) = 32
                   /\ Len(c.after.drbg.nonce) = 12
                   /\ c.after.drbg.counter = 0
            /\ (c.kind = "alea" /\ ~c.err) =>
                   /\ c.after.generated = 0
                   /\ c.after.buf = <<>>
                   /\ c.after.pos = 0

\* C11 witness: a DRBG refused for a seed of 31 bytes, then an RNG built
\* from a seed of 32
C11_Witness ==
    /\ Len(ctorlog) = 2
    /\ ctorlog[1].kind = "drbg" /\ ctorlog[1].got = 31 /\ ctorlog[1].err
    /\ ctorlog[2].kind = "alea" /\ ctorlog[2].got = 32 /\ ~ctorlog[2].err
    /\ generated = 0 /\ buf = <<>> /\ drbg.counter = 0

----------------------------------------------------------------------------
\* The integer samplers. rand_u32 reads 4 bytes of 8 bits as one big-endian
\* word; here a byte has ByteBits bits, so that the 2^32 values of the word
\* become 2^(4 * ByteBits) values that can all be enumerated. The integers of
\* the code have no width: n, a and b may be larger than any word.

\* the bits of a byte
ByteBits == 1

\* the bytes rand_u32 reads, and the bits of the word they make
WordBytes == 4
WordBits == WordBytes * ByteBits

\* 1 << 32
WordRange == 2 ^ WordBits

\* the values of a byte, of a word
ByteValues == 0..(2 ^ ByteBits - 1)
Words == 0..(WordRange - 1)

\* how many u32 are drawn in one run; no sampler is called after the last
MaxSampleDraws == 2

\* struct.unpack(">I", b)[0] for the 4 byte values vs
unpack_be(vs) ==
    ((vs[1] * 2 ^ ByteBits + vs[2]) * 2 ^ ByteBits + vs[3]) * 2 ^ ByteBits
        + vs[4]

\* a limit that rejects nothing: a mutant
rr_limit_none(n) == WordRange

\* limit of randrange(n), line 62
rr_limit(n) == WordRange - (WordRange % n)

\* the sample without its reduction: a mutant
rr_value_raw(x, n) == x

\* what randrange(n) returns for an accepted x, line 66
rr_value(x, n) == x % n

\* the arguments the samplers are called with
RangeArgs == {-1, 0, 1, 3, WordRange - 1, WordRange}
IntArgs ==
    {<<3, 2>>, <<-2, -2>>, <<-2, 0>>, <<3, WordRange + 1>>,
     <<0, WordRange - 1>>, <<0, WordRange>>}

\* a call of randrange(n): line 61, then the loop
SRandrange(n) ==
    /\ scall.st # "loop"
    /\ sdraws < MaxSampleDraws
    /\ scall' = [NoSample EXCEPT !.op = "randrange", !.n = n,
                                 !.st = IF n <= 0 THEN "raised" ELSE "loop",
                                 !.before = RNG]
    /\ UNCHANGED <<qvars, tvars, dvars, avars, uvars, bvars, gvars, hvars,
                   sdraws>>

\* a call of randint(a, b): line 69, then randrange(b - a + 1)
SRandint(a, b) ==
    /\ scall.st # "loop"
    /\ sdraws < MaxSampleDraws
    /\ scall' = [NoSample EXCEPT !.op = "randint", !.a = a, !.b = b,
                                 !.n = IF a > b THEN 0 ELSE b - a + 1,
                                 !.st = IF a > b THEN "raised" ELSE "loop",
                                 !.before = RNG]
    /\ UNCHANGED <<qvars, tvars, dvars, avars, uvars, bvars, gvars, hvars,
                   sdraws>>

\* one pass of the loop of randrange (lines 64-66): x = self.rand_u32(),
\* the 4 bytes random_bytes(4) returns having some values vs
SRandU32 ==
    /\ scall.st = "loop"
    /\ sdraws < MaxSampleDraws
    /\ sdraws' = sdraws + 1
    /\ \E extra \in Provided(ReseedAsk) :
           \E r \in {random_bytes(hmacs, blocks, RNG, WordBytes, extra)} :
               /\ hmacs' = r.hmacs
               /\ blocks' = r.blocks
               /\ SetRng(r.r)
    /\ \E vs \in [1..WordBytes -> ByteValues] :
           \E x \in {unpack_be(vs)} :
               \E ok \in {x < rr_limit(scall.n)} :
                   scall' = [scall EXCEPT
                                !.draws = @ + 1, !.x = x, !.acc = ok,
                                !.st = IF ok THEN "ret" ELSE "loop",
                                !.ret = IF ok
                                        THEN scall.a + rr_value(x, scall.n)
                                        ELSE 0]
    /\ UNCHANGED <<qvars, tvars, acc, sizes, ctrlog, lastgen, rlog, drawn,
                   gens, lastrb, rbcalls, areseeds, uvars, bvars, gvars,
                   hvars>>

NextSampler ==
    \/ \E n \in RangeArgs : SRandrange(n)
    \/ \E ab \in IntArgs : SRandint(ab[1], ab[2])
    \/ SRandU32

SpecSampler == InitAlea /\ [][NextSampler]_vars

\* C16: what randrange(n) returns for n >= 1 is in [0, n); for n <= 0 it
\* raises, having drawn nothing from the RNG.
C16_Randrange ==
    scall.op = "randrange" =>
        /\ scall.st = "ret" => (0 <= scall.ret /\ scall.ret < scall.n)
        /\ scall.n <= 0 <=> scall.st = "raised"
        /\ scall.st = "raised" => (scall.draws = 0 /\ RNG = scall.before)

\* C16 witness: randrange(3) returns 2 after one rejected sample
C16_Witness ==
    /\ scall.op = "randrange"
    /\ scall.st = "ret"
    /\ scall.n = 3
    /\ scall.draws = 2
    /\ scall.ret = 2

\* C17: randint(a, b) raises exactly when a > b; for a <= b what it returns
\* is in [a, b], and as long as it is sampling some u32 would be accepted,
\* so that it returns unless chance rejects every sample.
C17_Randint ==
    scall.op = "randint" =>
        /\ scall.st = "raised" <=> scall.a > scall.b
        /\ scall.st = "ret" => (scall.a <= scall.ret /\ scall.ret <= scall.b)
        /\ scall.st = "loop" =>
               \E x \in Words : x < rr_limit(scall.b - scall.a + 1)

\* the limit of randrange(n) is a positive multiple of n that leaves every
\* residue the same number of accepted samples, and the last sample was
\* accepted exactly if it was below the limit
Unbiased ==
    LET L == rr_limit(scall.n)
    IN  /\ L > 0
        /\ L % scall.n = 0
        /\ scall.draws > 0 => (scall.acc <=> scall.x < L)
        /\ scall.draws = 0 =>
               \A r \in 0..(scall.n - 1) :
                   Cardinality({x \in Words : x < L /\ x % scall.n = r})
                       = L \div scall.n

----------------------------------------------------------------------------
\* TRNGGenerator.produce. A byte of a frame's digest is
\* <<"dgst", rotations, pass_counter, global_counter, frame_idx, i>>: byte i
\* of the keyed blake2b of the header (lines 105-110) under the key in force.

\* the bytes of a digest (digest_size=32)
DigestBytes == 32
\* key_reseed_interval_frames is 512; here
RotateInterval == 2

\* the frames of the largest file, the passes of one generator, the calls
\* of produce in one run
MaxFrames == 2
MaxPasses == 3
MaxProduce == 2

\* cfg.bytes_total and cfg.stride
BytesTotals == {0, 1, 32, 33, 65}
Strides == {1, 2}

\* the provider of feeders.py asks for 1024 bytes or more; here
ProviderMin == 33
\* the n of provider(n)
ProviderAsks == {1, ProviderMin + 7}

\* the sources: a file of total frames of which those in bad fail to
\* decode and whose container gives the count of its frames or not, or a
\* camera that works or has failed
Sources ==
    UNION { { [NoSource EXCEPT !.kind = "file", !.total = t, !.bad = b,
                               !.counted = c, !.alive = TRUE]
              : b \in SUBSET (0..(t - 1)),
                c \in IF t = 0 THEN {TRUE} ELSE BOOLEAN }
            : t \in 0..MaxFrames }
    \cup { [NoSource EXCEPT !.kind = "camera", !.alive = a]
           : a \in BOOLEAN }

\* the sequences that hold every element of S once
Perms(S) ==
    { q \in [1..Cardinality(S) -> S] :
          \A i, j \in 1..Cardinality(S) : q[i] = q[j] => i = j }

\* _permute_indices(n): some order of range(0, n, stride)
permute_indices(n, stride) ==
    Perms({i \in 0..(n - 1) : i % stride = 0})

\* _get_frame_count(): what the capture reports, 0 once it is released
\* or when the container does not give the count
get_frame_count(src) ==
    IF src.released \/ ~src.counted THEN 0 ELSE src.total

\* _read_frame_at(i): TRUE when a frame is read
read_frame_at(src, i) ==
    ~src.released /\ i \in 0..(src.total - 1) /\ i \notin src.bad

\* the digest _process_frame_bytes returns (lines 105-110)
digest(g, frame_idx) ==
    [i \in 1..DigestBytes |->
        <<"dgst", g.rotations, g.pass_counter, g.global_counter, frame_idx,
          i - 1>>]

\* lines 115-117 of _process_frame_bytes and line 169 / 213 of produce
after_frame(g) ==
    LET since == g.key_frames_since_reseed + 1
    IN  [g EXCEPT !.global_counter = @ + 1,
                  !.key_frames_since_reseed =
                      IF since >= RotateInterval THEN 0 ELSE since,
                  !.rotations = IF since >= RotateInterval THEN @ + 1 ELSE @]

\* the digest appended whole: a mutant
accumulate_whole(produced, dgst, want) == produced \o dgst

\* lines 155-159 and 199-203: produced after the digest is added
accumulate(produced, dgst, want) ==
    LET need == want - Len(produced)
    IN  IF need >= Len(dgst) THEN produced \o dgst
        ELSE produced \o Take(dgst, need)

\* a generator is made for some source
InitGen ==
    /\ InitThreads
    /\ chunks = <<>> /\ cap = 0 /\ size = 0 /\ serial = 0
    /\ offered = <<>> /\ polled = <<>> /\ last = NoCall
    /\ NoDrbg
    /\ generated = 0 /\ buf = <<>> /\ buf_pos = 0 /\ lastrb = NoRngCall
    /\ rbcalls = 0 /\ areseeds = 0
    /\ apc = [p \in RngProcs |-> "idle"]
    /\ aloc = [p \in RngProcs |-> NoRngLocals]
    /\ handed = <<>>
    /\ ctorlog = <<>>
    /\ scall = NoSample /\ sdraws = 0
    /\ gsrc \in Sources
    /\ gen = NewGen
    /\ gcall = NoProduce
    /\ env = NoEnv
    /\ NoHost

OtherThanG == <<qvars, tvars, dvars, avars, uvars, bvars, svars, hvars>>

\* the source is left as it is: a mutant
release_none(src) == src

\* self.source.release() of the finally clauses
Released(src) == [src EXCEPT !.released = TRUE, !.releases = @ + 1]

\* the finally clause of provider (feeders.py line 17), for a call made by
\* the provider
restore(g, c) ==
    IF c.via = "provider" THEN [g EXCEPT !.cfg_bytes_total = c.old] ELSE g

\* lines 122-137 of produce for the call c0, cfg.bytes_total being
\* c0.bytes_total: a file whose count of frames is not positive raises in
\* the try of the seekable path and the finally clause releases it
produce_start(c0) ==
    /\ LET c == [c0 EXCEPT !.want = Max(1, c0.bytes_total)]
           g == [gen EXCEPT !.calls = @ + 1,
                            !.cfg_bytes_total = c0.bytes_total]
       IN  IF gsrc.kind = "file"
           THEN IF get_frame_count(gsrc) <= 0
                THEN /\ gcall' = [c EXCEPT !.st = "raised", !.path = "seek",
                                           !.why = "count"]
                     /\ gsrc' = Released(gsrc)
                     /\ gen' = restore(g, c)
                ELSE /\ \E idx \in permute_indices(get_frame_count(gsrc),
                                                   c.stride) :
                            gcall' = [c EXCEPT !.st = "seek",
                                               !.path = "seek",
                                               !.total =
                                                   get_frame_count(gsrc),
                                               !.indices = idx]
                     /\ gen' = g
                     /\ UNCHANGED gsrc
           ELSE /\ gcall' = [c EXCEPT !.st = "linear", !.path = "linear"]
                /\ gen' = g
                /\ UNCHANGED gsrc
    /\ UNCHANGED OtherThanG

\* produce() is called with cfg.bytes_total and cfg.stride
GProduce(bytes_total, stride) ==
    /\ gcall.st \in {"idle", "ret", "raised"}
    /\ gen.calls < MaxProduce
    /\ produce_start([NoProduce EXCEPT !.via = "direct",
                                       !.bytes_total = bytes_total,
                                       !.stride = stride])

\* provider(n) of make_seed_provider_from_generator: lines 10-15 of
\* feeders.py, then produce
GProvider(n, stride) ==
    /\ gcall.st \in {"idle", "ret", "raised"}
    /\ gen.calls < MaxProduce
    /\ produce_start([NoProduce EXCEPT !.via = "provider", !.n = n,
                                       !.old = gen.cfg_bytes_total,
                                       !.bytes_total = Max(n, ProviderMin),
                                       !.stride = stride])

\* one pass of the loop of the seekable path (lines 138-169); a whole pass
\* of the permutation without a frame is a dry pass, a read that fails after
\* a dry pass a dead read
GSeekStep ==
    /\ gcall.st = "seek"
    /\ Len(gcall.produced) < gcall.want
    /\ \E newpass \in {gcall.p >= Len(gcall.indices)} :
       /\ newpass => gen.pass_counter < MaxPasses
       /\ \E idx \in IF newpass
                     THEN permute_indices(gcall.total, gcall.stride)
                     ELSE {gcall.indices} :
          LET g1 == IF newpass THEN [gen EXCEPT !.pass_counter = @ + 1]
                    ELSE gen
              c1 == IF newpass
                    THEN [gcall EXCEPT
                             !.indices = idx, !.p = 1, !.prev = FALSE,
                             !.dry = IF gcall.passgood = 0 THEN @ + 1 ELSE 0,
                             !.passgood = 0]
                    ELSE [gcall EXCEPT !.p = @ + 1]
              i == idx[c1.p]
          IN  IF read_frame_at(gsrc, i)
              THEN /\ gcall' = [c1 EXCEPT
                                   !.produced =
                                       accumulate(@, digest(g1, c1.frame_idx),
                                                  c1.want),
                                   !.prev = TRUE,
                                   !.frame_idx = @ + 1,
                                   !.frames = @ + 1,
                                   !.passgood = @ + 1,
                                   !.dry = 0,
                                   !.deadreads = 0]
                   /\ gen' = after_frame(g1)
              ELSE /\ gcall' = [c1 EXCEPT
                                   !.deadreads = IF c1.dry >= 1 THEN @ + 1
                                                 ELSE @]
                   /\ gen' = g1
    /\ UNCHANGED <<gsrc, OtherThanG>>

\* one pass of the loop of the linear path (lines 181-213): read() gives a
\* frame (ok) or none; a camera that works may fail at any read. A rewind
\* after a failed read makes the pass dry, a read that fails after it is a
\* dead read
GLinearStep(ok) ==
    /\ gcall.st = "linear"
    /\ Len(gcall.produced) < gcall.want
    /\ ok => (gsrc.alive /\ ~gsrc.released)
    /\ IF ok
       THEN /\ UNCHANGED gsrc
            /\ IF gcall.frame_idx % gcall.stride # 0
               THEN /\ gcall' = [gcall EXCEPT !.frame_idx = @ + 1,
                                              !.dry = 0, !.deadreads = 0]
                    /\ UNCHANGED gen
               ELSE /\ gcall' = [gcall EXCEPT
                                    !.produced =
                                        accumulate(@,
                                                   digest(gen,
                                                          gcall.frame_idx),
                                                   gcall.want),
                                    !.prev = TRUE,
                                    !.frame_idx = @ + 1,
                                    !.frames = @ + 1,
                                    !.dry = 0,
                                    !.deadreads = 0]
                    /\ gen' = after_frame(gen)
       ELSE /\ gen.pass_counter < MaxPasses
            /\ gsrc' = [gsrc EXCEPT !.alive = FALSE, !.rewinds = @ + 1]
            /\ gcall' = [gcall EXCEPT
                            !.prev = FALSE,
                            !.deadreads = IF gcall.dry >= 1 THEN @ + 1 ELSE @,
                            !.dry = @ + 1]
            /\ gen' = [gen EXCEPT !.pass_counter = @ + 1]
    /\ UNCHANGED OtherThanG

\* the loop ends: the finally clause, then return bytes(produced)
GReturn ==
    /\ gcall.st \in {"seek", "linear"}
    /\ Len(gcall.produced) >= gcall.want
    /\ gcall' = [gcall EXCEPT !.st = "ret"]
    /\ gsrc' = Released(gsrc)
    /\ gen' = restore([gen EXCEPT !.returns = @ + 1], gcall)
    /\ UNCHANGED OtherThanG

\* the work on a frame raises inside the loop of either path (lines 152
\* and 196): the finally clause, then the error leaves produce
GFail ==
    /\ gcall.st \in {"seek", "linear"}
    /\ Len(gcall.produced) < gcall.want
    /\ IF gsrc.kind = "file"
       THEN \E i \in 0..(gsrc.total - 1) : read_frame_at(gsrc, i)
       ELSE gsrc.alive /\ ~gsrc.released
    /\ gcall' = [gcall EXCEPT !.st = "raised", !.why = "frame"]
    /\ gsrc' = Released(gsrc)
    /\ gen' = restore(gen, gcall)
    /\ UNCHANGED OtherThanG

NextGen ==
    \/ \E bytes_total \in BytesTotals, stride \in Strides :
           GProduce(bytes_total, stride)
    \/ \E n \in ProviderAsks, stride \in Strides : GProvider(n, stride)
    \/ GSeekStep
    \/ \E ok \in BOOLEAN : GLinearStep(ok)
    \/ GReturn
    \/ GFail

SpecGen == InitGen /\ [][NextGen]_vars

\* the digest the byte b is of
DigestOf(b) == <<b[2], b[3], b[4], b[5]>>

\* C19: what produce has gathered is never longer than bytes_total, and
\* when it returns, for bytes_total >= 1, the result has exactly bytes_total
\* bytes: the digests of ceil(bytes_total / 32) frames, one after the other
\* from their first byte, the last cut to fit.
C19_Length ==
    /\ Len(gcall.produced) <= gcall.want
    /\ (gcall.st = "ret" /\ gcall.bytes_total >= 1) =>
           /\ Len(gcall.produced) = gcall.bytes_total
           /\ gcall.frames = (gcall.bytes_total + 31) \div 32
           /\ \A j \in 1..Len(gcall.produced) :
                  gcall.produced[j][6] = (j - 1) % 32
           /\ \A j, k \in 1..Len(gcall.produced) :
                  ((j - 1) \div 32 = (k - 1) \div 32)
                      <=> DigestOf(gcall.produced[j])
                              = DigestOf(gcall.produced[k])

\* C19 witness: 33 bytes returned from a file one frame of which fails
C19_Witness ==
    /\ gcall.st = "ret"
    /\ gcall.path = "seek"
    /\ gcall.bytes_total = 33
    /\ Len(gcall.produced) = 33
    /\ gsrc.bad # {}

\* C20: once a read has failed, and failed again after the rewind (the new
\* pass of the seekable path) that followed, produce has ended with an
\* error.
C20_DeadSource == gcall.deadreads >= 1 => gcall.st = "raised"

\* C21: every call of produce that has ended, by a return of either path or
\* by an error raised inside either path, has released the source exactly
\* once, and a call that has not ended has not released it: the releases
\* are as many as the calls that have ended.
C21_ReleaseOnce ==
    gsrc.releases = IF gcall.st \in {"seek", "linear"} THEN gen.calls - 1
                    ELSE gen.calls

\* C21 witness: a call has ended by an error raised in the linear path
\* after a frame gave its digest
C21_Witness ==
    /\ gcall.st = "raised"
    /\ gcall.path = "linear"
    /\ gcall.why = "frame"
    /\ gcall.frames >= 1
    /\ gsrc.releases = 1

\* C28: a file that reports a positive count of frames is read by the
\* permutation of the seekable path; a file that reports a count that is
\* not positive and has a frame that can be read is read by the linear
\* path and the call does not fail.
C28_Path ==
    (gcall.st # "idle" /\ gsrc.kind = "file") =>
        IF gcall.total > 0 THEN gcall.path = "seek"
        ELSE (gen.calls = 1 /\ (0..(gsrc.total - 1)) \ gsrc.bad # {}) =>
                 (gcall.path = "linear" /\ gcall.st # "raised")

\* C30: a call of the provider on a generator whose earlier call returned
\* does not fail on the count of the frames, what it returns has n bytes or
\* more, and cfg.bytes_total is after the call, returned or raised, what it
\* was before it.
C30_Provider ==
    (gcall.via = "provider" /\ gen.returns >= 1) =>
        /\ ~(gcall.st = "raised" /\ gcall.why = "count")
        /\ gcall.st = "ret" => Len(gcall.produced) >= gcall.n
        /\ gcall.st \in {"ret", "raised"} =>
               gen.cfg_bytes_total = gcall.old

----------------------------------------------------------------------------
\* _seed_provider and _try_bytes_from_video_or_cam of api/app.py, called
\* from the event loop (boot, filler) and from a worker thread (a handler
\* that reseeds) while the event loop offers to the queue and polls it.
\* GEN_CFG is one object for the whole process. A run of produce is taken
\* by its result: want bytes for the want it read on line 122.

\* RAW_CAP, the n a caller asks for, the calls of one thread and the bytes
\* offered in one run; here
HostCap == 3
MaxAsk == 2
MaxHostCalls == 1
MaxHostSerial == 3

HostAsks == 1..MaxAsk

\* what the process may be started with: a video file that can be read, a
\* camera (ALEAMARIS_USE_CAM) when the file cannot, or neither
Envs == [src : {"none", "video", "cam"}, urandom : BOOLEAN]

\* the bytes produce returns for want, and os.urandom(n)
Conditioned(want) == Outside(500, want)
Urandom(n) == Outside(900, n)

\* lines 81-85 of _seed_provider
seed_result(extra, n, allow) ==
    IF extra # <<>>
    THEN IF Len(extra) >= n THEN extra
         ELSE IF allow THEN extra \o Urandom(n - Len(extra))
         ELSE extra
    ELSE IF allow THEN Urandom(n)
    ELSE <<>>

InitHost ==
    /\ InitThreads
    /\ chunks = <<>> /\ cap = HostCap /\ size = 0 /\ serial = 0
    /\ offered = <<>> /\ polled = <<>> /\ last = NoCall
    /\ NoDrbg
    /\ generated = 0 /\ buf = <<>> /\ buf_pos = 0 /\ lastrb = NoRngCall
    /\ rbcalls = 0 /\ areseeds = 0
    /\ apc = [p \in RngProcs |-> "idle"]
    /\ aloc = [p \in RngProcs |-> NoRngLocals]
    /\ handed = <<>>
    /\ ctorlog = <<>>
    /\ scall = NoSample /\ sdraws = 0
    /\ gsrc = NoSource /\ gen = NewGen /\ gcall = NoProduce
    /\ env \in Envs
    /\ NoHost

\* what the calls of the service leave alone
OtherThanH == <<tvars, dvars, avars, uvars, bvars, svars, gvars>>

\* _seed_provider(n) is called on a worker thread (alea.py line 32)
HSeed(p, n) ==
    /\ p # "loop"
    /\ hpc[p] = "idle"
    /\ hloc[p].calls < MaxHostCalls
    /\ hpc' = [hpc EXCEPT ![p] = "s76"]
    /\ hloc' = [hloc EXCEPT ![p] = [NoHostLocals EXCEPT
                                       !.op = "seed", !.n = n,
                                       !.calls = hloc[p].calls + 1]]
    /\ UNCHANGED <<env, hcfg, svc, qvars, OtherThanH>>

\* line 76: if q.available() >= n
HS76(p) ==
    /\ hpc[p] = "s76"
    /\ hloc' = [hloc EXCEPT ![p].saw = available(Q)]
    /\ hpc' = [hpc EXCEPT ![p] = IF available(Q) >= hloc[p].n THEN "s77"
                                 ELSE "t57"]
    /\ UNCHANGED <<env, hcfg, svc, qvars, OtherThanH>>

\* line 77: return q.poll(n)
HS77(p) ==
    /\ hpc[p] = "s77"
    /\ \E r \in {poll(Q, hloc[p].n)} :
           /\ chunks' = r.chunks
           /\ size' = r.size
           /\ hloc' = [hloc EXCEPT ![p].ret = r.out]
    /\ hpc' = [hpc EXCEPT ![p] = "done"]
    /\ UNCHANGED <<env, hcfg, svc, cap, serial, offered, polled, last,
                   OtherThanH>>

\* _try_bytes_from_video_or_cam(n) is called on the event loop (lines 119
\* and 147)
HTry(p, n) ==
    /\ p = "loop"
    /\ hpc[p] = "idle"
    /\ hloc[p].calls < MaxHostCalls
    /\ hpc' = [hpc EXCEPT ![p] = "t57"]
    /\ hloc' = [hloc EXCEPT ![p] = [NoHostLocals EXCEPT
                                       !.op = "try", !.n = n,
                                       !.calls = hloc[p].calls + 1]]
    /\ UNCHANGED <<env, hcfg, svc, qvars, OtherThanH>>

\* _try_bytes_from_video_or_cam has its result: it returns it to the
\* filler or the boot, or to line 80 of _seed_provider
after_try(p, extra) ==
    /\ hloc' = [hloc EXCEPT ![p].tried = TRUE, ![p].extra = extra,
                            ![p].ret = IF hloc[p].op = "try" THEN extra
                                       ELSE @]
    /\ hpc' = [hpc EXCEPT ![p] = IF hloc[p].op = "try" THEN "done"
                                 ELSE "s81"]

\* lines 54-58 (64-67 for the camera): the source and the generator are
\* made; with no source line 72 returns b""
HT57(p) ==
    /\ hpc[p] = "t57"
    /\ IF env.src = "none"
       THEN after_try(p, <<>>)
       ELSE /\ hpc' = [hpc EXCEPT ![p] = "t59"]
            /\ UNCHANGED hloc
    /\ UNCHANGED <<env, hcfg, svc, qvars, OtherThanH>>

\* line 59 (68): GEN_CFG.bytes_total = n
HT59(p) ==
    /\ hpc[p] = "t59"
    /\ hcfg' = hloc[p].n
    /\ hpc' = [hpc EXCEPT ![p] = "t60"]
    /\ UNCHANGED <<env, hloc, svc, qvars, OtherThanH>>

\* line 60 (69) enters produce; generator.py line 122:
\* want = max(1, self.cfg.bytes_total)
HT122(p) ==
    /\ hpc[p] = "t60"
    /\ hloc' = [hloc EXCEPT ![p].want = Max(1, hcfg)]
    /\ hpc' = [hpc EXCEPT ![p] = "run"]
    /\ UNCHANGED <<env, hcfg, svc, qvars, OtherThanH>>

\* produce returns its want bytes
HTRet(p) ==
    /\ hpc[p] = "run"
    /\ after_try(p, Conditioned(hloc[p].want))
    /\ UNCHANGED <<env, hcfg, svc, qvars, OtherThanH>>

\* produce raises: lines 61-62 (70-71), then line 72 returns b""
HTFail(p) ==
    /\ hpc[p] = "run"
    /\ after_try(p, <<>>)
    /\ UNCHANGED <<env, hcfg, svc, qvars, OtherThanH>>

\* lines 81-85 of _seed_provider
HS81(p) ==
    /\ hpc[p] = "s81"
    /\ hloc' = [hloc EXCEPT ![p].ret = seed_result(hloc[p].extra,
                                                   hloc[p].n, env.urandom)]
    /\ hpc' = [hpc EXCEPT ![p] = "done"]
    /\ UNCHANGED <<env, hcfg, svc, qvars, OtherThanH>>

\* the caller has its bytes
HDone(p) ==
    /\ hpc[p] = "done"
    /\ hpc' = [hpc EXCEPT ![p] = "idle"]
    /\ hloc' = [hloc EXCEPT ![p] = [NoHostLocals EXCEPT
                                       !.calls = hloc[p].calls]]
    /\ UNCHANGED <<env, hcfg, svc, qvars, OtherThanH>>

\* the event loop polls the queue (the reseed task, line 99)
HPoll(c) ==
    /\ hpc["loop"] = "idle"
    /\ size > 0
    /\ \E r \in {poll(Q, c)} :
           /\ chunks' = r.chunks
           /\ size' = r.size
    /\ UNCHANGED <<env, hcfg, hpc, hloc, svc, cap, serial, offered, polled,
                   last, OtherThanH>>

\* the event loop offers k bytes to the queue (the boot, the filler, ingest)
HOffer(k) ==
    /\ hpc["loop"] = "idle"
    /\ serial + k <= MaxHostSerial
    /\ \E r \in {offer(Q, Outside(700 + serial, k))} :
           /\ chunks' = r.chunks
           /\ size' = r.size
    /\ serial' = serial + k
    /\ UNCHANGED <<env, hcfg, hpc, hloc, svc, cap, offered, polled, last,
                   OtherThanH>>

NextHost ==
    \/ \E p \in HostProcs, n \in HostAsks : HSeed(p, n)
    \/ \E p \in HostProcs, n \in HostAsks : HTry(p, n)
    \/ \E p \in HostProcs : HS76(p)
    \/ \E p \in HostProcs : HS77(p)
    \/ \E p \in HostProcs : HT57(p)
    \/ \E p \in HostProcs : HT59(p)
    \/ \E p \in HostProcs : HT122(p)
    \/ \E p \in HostProcs : HTRet(p)
    \/ \E p \in HostProcs : HTFail(p)
    \/ \E p \in HostProcs : HS81(p)
    \/ \E p \in HostProcs : HDone(p)
    \/ \E c \in HostAsks : HPoll(c)
    \/ \E k \in HostAsks : HOffer(k)

SpecHost == InitHost /\ [][NextHost]_vars

\* C27: _seed_provider(n) that saw n bytes or more in the queue returns n
\* bytes; otherwise it returns the bytes of the conditioner, made n bytes
\* long by OS bytes when they are fewer and the fallback is allowed, OS
\* bytes alone only when the fallback is allowed, else nothing; with the
\* fallback allowed it returns n bytes or more.
C27_SeedProvider ==
    \A p \in HostProcs :
        (hpc[p] = "done" /\ hloc[p].op = "seed") =>
            /\ hloc[p].saw >= hloc[p].n => Len(hloc[p].ret) = hloc[p].n
            /\ hloc[p].saw < hloc[p].n =>
                   hloc[p].ret = seed_result(hloc[p].extra, hloc[p].n,
                                             env.urandom)
            /\ env.urandom => Len(hloc[p].ret) >= hloc[p].n

\* C29: a run of produce started by _try_bytes_from_video_or_cam(n) works
\* with bytes_total = n, and what the call returns, when it returns bytes,
\* has n bytes.
C29_Isolated ==
    \A p \in HostProcs :
        /\ hpc[p] = "run" => hloc[p].want = hloc[p].n
        /\ (hloc[p].tried /\ hloc[p].extra # <<>>) =>
               Len(hloc[p].extra) = hloc[p].n

----------------------------------------------------------------------------
\* The service of api/app.py from its import to its requests, one handler
\* or one pass of a task at a time. The bytes that go through the queue
\* are not told apart.

\* RAW_CAP is 100000000, BOOT_BYTES 4096, FILL_LOW_WM 2000, FILL_HIGH_WM
\* 5000, FILL_CHUNK_BYTES 500, RESEED_BYTES 64; here
SvcCap == 5
BootBytes == 3
LowWm == 2
HighWm == 3
FillChunk == 2
ReseedBytes == 1
\* the passes of the reseed task in one run
MaxSvcReseeds == 1
\* the n of a requester on another thread (alea.py line 32); here
RaceAsk == 1

\* get_bytes serves 4096 bytes at most
MaxRawCount == 4096

\* the body of POST /trng/ingest and the count of GET /trng/bytes
IngestSizes == {SvcCap}
RawCounts == {0, MaxRawCount + 1}

\* what the service may be started with
SvcEnvs == [src : {"none", "video"}, urandom : BOOLEAN]

\* n bytes of the conditioner, of the OS or of a request body
Plain(n) == [i \in 1..n |-> <<-1, 0>>]

\* _try_bytes_from_video_or_cam(n) seen from its caller: ok when a source
\* gave the bytes, which are as many as GEN_CFG.bytes_total was on line 122
\* of generator.py
try_bytes(ok, got) == IF ok THEN Plain(Max(1, got)) ELSE <<>>

\* line 117, with HIGH for LOW: a mutant
below_high(avail) == avail < HighWm

\* line 117: if avail < FILL_LOW_WM
below_low(avail) == avail < LowWm

\* line 118: need_total
fill_need(avail) == Min(HighWm - avail, FillChunk)

\* the task ends on an exception: a mutant
task_ends(task) == FALSE

\* lines 125-128: the exception is caught inside the loop of the task
after_exception(task) == task

InitService ==
    /\ InitThreads
    /\ chunks = <<>> /\ cap = SvcCap /\ size = 0 /\ serial = 0
    /\ offered = <<>> /\ polled = <<>> /\ last = NoCall
    /\ NoDrbg
    /\ generated = 0 /\ buf = <<>> /\ buf_pos = 0 /\ lastrb = NoRngCall
    /\ rbcalls = 0 /\ areseeds = 0
    /\ apc = [p \in RngProcs |-> "idle"]
    /\ aloc = [p \in RngProcs |-> NoRngLocals]
    /\ handed = <<>>
    /\ ctorlog = <<>>
    /\ scall = NoSample /\ sdraws = 0
    /\ gsrc = NoSource /\ gen = NewGen /\ gcall = NoProduce
    /\ env \in SvcEnvs
    /\ NoHost

\* what the service leaves alone of the queue and of the RNG
QueueRest == <<cap, serial, offered, polled, last>>
RngRest == <<blocks, acc, sizes, ctrlog, lastgen, rlog, drawn, gens, avars>>
OtherThanS == <<tvars, uvars, bvars, svars, gvars, hpc, hloc>>

\* the module is imported: line 87, _rng = AleaMaris(_seed_provider). The
\* queue is empty, so _seed_provider(48) goes to lines 79-85; the DRBG is
\* the one of pure Python
SImport(ok) ==
    /\ svc.phase = "import"
    /\ ok => env.src # "none"
    /\ \E x \in {alea_init(hmacs, "pure",
                           seed_result(try_bytes(ok, SeedAsk), SeedAsk,
                                       env.urandom))} :
           /\ hmacs' = x.hmacs
           /\ drbg' = IF x.err THEN drbg ELSE x.r.drbg
           /\ svc' = IF x.err
                     THEN [svc EXCEPT !.phase = "failed",
                                      !.err = "InsufficientSeed"]
                     ELSE [svc EXCEPT !.phase = "imported"]
    /\ hcfg' = IF ok THEN SeedAsk ELSE hcfg
    /\ UNCHANGED <<env, chunks, size, QueueRest, RngRest, OtherThanS>>

\* _startup: lines 142-161
SStartup(ok) ==
    /\ svc.phase = "imported"
    /\ ok => env.src # "none"
    /\ \E boot \in {IF ~ok /\ env.urandom THEN Plain(BootBytes)
                    ELSE try_bytes(ok, BootBytes)} :
           IF boot = <<>>
           THEN /\ svc' = [svc EXCEPT !.phase = "failed",
                                      !.err = "NoEntropySource"]
                /\ UNCHANGED <<chunks, size>>
           ELSE /\ \E r \in {offer(Q, boot)} :
                       chunks' = r.chunks /\ size' = r.size
                /\ svc' = [svc EXCEPT !.phase = "up", !.ftask = TRUE,
                                      !.rtask = TRUE]
    /\ hcfg' = IF ok THEN BootBytes ELSE hcfg
    /\ UNCHANGED <<env, QueueRest, dvars, avars, OtherThanS>>

\* one pass of _filler_loop (lines 115-124); a requester on another thread
\* may have set GEN_CFG.bytes_total between lines 59 and 122 of this one
SFiller(ok) ==
    /\ svc.phase = "up"
    /\ svc.ftask
    /\ ok => env.src # "none"
    /\ IF below_low(available(Q))
       THEN \E total \in IF ok THEN {fill_need(available(Q)), RaceAsk}
                         ELSE {0} :
            \E chunk \in {IF ~ok /\ env.urandom
                          THEN Plain(fill_need(available(Q)))
                          ELSE try_bytes(ok, total)} :
            \E r \in {IF chunk # <<>> THEN offer(Q, chunk)
                      ELSE [chunks |-> chunks, size |-> size, ret |-> 0]} :
                /\ chunks' = r.chunks
                /\ size' = r.size
                /\ hcfg' = IF ok THEN total ELSE hcfg
                /\ svc' = [svc EXCEPT !.fill =
                              IF chunk = <<>> THEN NoService.fill
                              ELSE [offered |-> TRUE,
                                    saw |-> available(Q),
                                    asked |-> fill_need(available(Q)),
                                    got |-> Len(chunk),
                                    after |-> r.size]]
       ELSE /\ svc' = [svc EXCEPT !.fill = NoService.fill]
            /\ UNCHANGED <<chunks, size, hcfg>>
    /\ UNCHANGED <<env, QueueRest, dvars, avars, OtherThanS>>

\* a pass of _filler_loop raises: lines 125-128
SFillerRaise ==
    /\ svc.phase = "up"
    /\ svc.ftask
    /\ svc' = [svc EXCEPT !.fexc = TRUE,
                          !.ftask = after_exception(svc.ftask)]
    /\ UNCHANGED <<env, hcfg, qvars, dvars, avars, OtherThanS>>

\* one pass of _reseed_loop (lines 133-139) with _reseed_from_queue (lines
\* 93-103)
SReseedTick ==
    /\ svc.phase = "up"
    /\ svc.rtask
    /\ svc.reseeds < MaxSvcReseeds
    /\ \E r \in {poll(Q, Min(available(Q), ReseedBytes))} :
           /\ chunks' = r.chunks
           /\ size' = r.size
           /\ \E x \in {alea_reseed(hmacs, RNG,
                                    IF r.out = <<>> /\ env.urandom
                                    THEN Plain(ReseedBytes)
                                    ELSE r.out)} :
                  /\ hmacs' = x.hmacs
                  /\ drbg' = x.r.drbg
    /\ svc' = [svc EXCEPT !.reseeds = @ + 1]
    /\ UNCHANGED <<env, hcfg, QueueRest, RngRest, OtherThanS>>

\* POST /trng/ingest with a body of k bytes: lines 169-176
SIngest(k) ==
    /\ svc.phase = "up"
    /\ svc.open
    /\ ~svc.ingested
    /\ \E r \in {offer(Q, Plain(k))} :
           chunks' = r.chunks /\ size' = r.size
    /\ svc' = [svc EXCEPT !.served = TRUE, !.ingested = TRUE,
                          !.health = NoService.health]
    /\ UNCHANGED <<env, hcfg, QueueRest, dvars, avars, OtherThanS>>

\* GET /trng/bytes?count=: lines 178-183
SGetBytes(count) ==
    /\ svc.phase = "up"
    /\ svc.open
    /\ \E r \in {poll(Q, Max(1, Min(count, MaxRawCount)))} :
           chunks' = r.chunks /\ size' = r.size
    /\ svc' = [svc EXCEPT !.served = TRUE, !.health = NoService.health]
    /\ UNCHANGED <<env, hcfg, QueueRest, dvars, avars, OtherThanS>>

\* GET /trng/health: lines 189-191
SHealth ==
    /\ svc.phase = "up"
    /\ svc.open
    /\ svc' = [svc EXCEPT !.health = [asked |-> TRUE,
                                      available |-> available(Q)]]
    /\ UNCHANGED <<env, hcfg, qvars, dvars, avars, OtherThanS>>

\* the clients send no request any more
SClose ==
    /\ svc.phase = "up"
    /\ svc.open
    /\ svc' = [svc EXCEPT !.open = FALSE]
    /\ UNCHANGED <<env, hcfg, qvars, dvars, avars, OtherThanS>>

NextService ==
    \/ \E ok \in BOOLEAN : SImport(ok)
    \/ \E ok \in BOOLEAN : SStartup(ok)
    \/ \E ok \in BOOLEAN : SFiller(ok)
    \/ SFillerRaise
    \/ SReseedTick
    \/ \E k \in IngestSizes : SIngest(k)
    \/ \E count \in RawCounts : SGetBytes(count)
    \/ SHealth
    \/ SClose

SpecService == InitService /\ [][NextService]_vars

\* the filler task gets its turn, and a request to a source that works
\* gives its bytes
SpecServiceLive ==
    /\ InitService
    /\ [][NextService]_vars
    /\ WF_vars(SFiller(TRUE))
    /\ WF_vars(SFiller(FALSE))

C24_BootFailure ==
    (env.src = "none" /\ ~env.urandom /\ svc.phase # "import") =>
        /\ svc.phase = "failed"
        /\ svc.err = "NoEntropySource"
        /\ ~svc.ftask /\ ~svc.rtask
        /\ ~svc.served

\* C25: in a process started with no source and with the OS fallback, a
\* health request made after start-up and before any other request of a
\* client reports BOOT_BYTES bytes.
C25_Health ==
    (env.src = "none" /\ env.urandom /\ svc.health.asked /\ ~svc.served) =>
        svc.health.available = BootBytes

====
